---- MODULE Spec2Model ----
(***************************************************************************)
(* Verification model of claude-agent-sdk-go.                              *)
(*                                                                         *)
(*  - ConcurrentClient (the serialized shared-session wrapper) together    *)
(*    with the session it wraps: specification SpecCC, and SpecCalls with  *)
(*    the span of every call into the wrapped Client made explicit.        *)
(*  - The control protocol engine (in-flight table, inbound dispatch):     *)
(*    specification SpecCtl.                                               *)
(*  - The in-process MCP server (SdkMCPServer, tool.Execute,               *)
(*    validateInput): specification SpecMcp.                               *)
(***************************************************************************)
EXTENDS Integers, Sequences, FiniteSets, TLC

(***************************************************************************)
(* Bounds of the model.                                                    *)
(***************************************************************************)
NumCallers == 2
MaxTurns == 2
MaxAsst == 1
MaxReqs == 2
MaxPeerLines == 2
NumGoroutines == 2

(***************************************************************************)
(* Program constants.                                                      *)
(***************************************************************************)
\* out := make(chan types.Message, 10)
OutCap == 10

Callers == 1..NumCallers
Turns == 1..MaxTurns
Free == 0
NoMsg == [turn |-> 0, type |-> "none", g |-> 0]

VARIABLES
    \* ---- ConcurrentClient ----
    mu,         \* ConcurrentClient.mu: Free or the caller holding it
    reqMu,      \* ConcurrentClient.reqMu: Free or the caller whose cycle holds it
    pc,         \* per caller: "idle", the wrapper method it is inside, or "recv"
    cur,        \* per caller: the turn whose per-turn channel it ranges over
    \* ---- the wrapped session (Client, transport, peer) ----
    conn,       \* "created", "connected", "closed"
    nTurns,     \* number of user turns written to the session
    turnKind,   \* per turn: "none", "legacy" (Query/QueryWithContent), "qar"
    msgs,       \* the session's message buffer, in emission order
    emitCount,  \* number of messages the peer has emitted
    peerTurn,   \* the next turn the peer answers
    \* ---- per-turn forwarder goroutine and channel ----
    fwpc,       \* "none", "recv", "send", "unlock", "close", "done"
    fwMsg,      \* the message the forwarder holds between receive and send
    out,        \* per-turn channel buffer
    outHist,    \* every message ever sent on the per-turn channel
    outClosed,  \* close(out) has run
    recvd,      \* messages the consumer has received from the channel
    early,      \* upstream closed without a result
    \* ---- SdkMCPServer ----
    tools,      \* SdkMCPServer.tools: the tool list, in order
    toolsMap,   \* SdkMCPServer.toolsMap: name -> tool
    lastMsg,    \* the message handed to the last HandleMessage call
    lastRet,    \* what that call returned
    opErr,      \* the error the last AddTool / RemoveTool returned ("" for nil)
    \* ---- control protocol engine ----
    tstate,     \* the transport: "open" or "closed"
    nextId,     \* number of request ids generated so far
    inflight,   \* request ids with a completion slot installed
    wpc,        \* per outgoing request: "none", "installed", "awaiting", "returned"
    outcome,    \* per outgoing request: the resolutions its waiter was given, in order
    inbound,    \* control lines the peer wrote that the reader has not parsed yet
    nPeer,      \* number of control lines the peer has written
    nPeerReq,   \* number of control requests the peer has written
    hpc,        \* per inbound request: "none", "running", "replied", "lost"
    replies,    \* control responses written to the peer, in order
    warnings,   \* protocol warnings recorded
    pendingAtClose, \* the request ids that were in flight when the session closed
    \* ---- SdkMCPServer registry shared by goroutines ----
    rwWriter,   \* SdkMCPServer.mu: 0 or the goroutine holding Lock
    rwReaders,  \* SdkMCPServer.mu: the goroutines holding RLock
    gpc,        \* per goroutine: "idle" or the position inside a method
    garg,       \* per goroutine: the argument of the method it is inside
    regArr,     \* the array under the slice s.tools (its length is the capacity)
    regLen,     \* len(s.tools)
    regMap,     \* s.toolsMap
    snapTaken,  \* a caller holds a slice that Tools() returned
    snapShared, \* that slice still points into the array under s.tools
    snapArr,    \* the array under that slice once s.tools has moved to a new one
    snapLen,    \* the length of that slice
    snapSeen,   \* the list that slice showed when Tools() returned it
    \* ---- MCPServerTransport and the temporary MCP config file ----
    mcpServers,     \* options.McpServers
    tstatus,        \* "idle", "built", "new", "connected" or "closed"
    tmpFiles,       \* the temporary files that exist
    nCreated,       \* how many temporary files os.CreateTemp has made
    cmdFile,        \* the file named after --mcp-servers in the command (0: none)
    mcpConfigFile,  \* MCPServerTransport.mcpConfigFile (0: "")
    \* ---- functions called with an argument ----
    callArg,    \* the argument of the last call
    callRet,    \* what that call returned
    \* ---- SubprocessCLITransport: the stdout reader and its consumer ----
    sub,        \* stdout, the lines read, the messages channel, ready, the latched error
    \* ---- HTTPTransport ----
    http,       \* ctx, errChan, messageChan and what the last calls returned
    \* ---- MCPServerTransport: the in-process servers ----
    sdk         \* sdkMCPServers and what the last GetSDKMCPServer returned

ccVars == <<mu, reqMu, pc, cur, conn, nTurns, turnKind, msgs, emitCount,
            peerTurn, fwpc, fwMsg, out, outHist, outClosed, recvd, early>>

mcpVars == <<tools, toolsMap, lastMsg, lastRet, opErr>>

ctlVars == <<tstate, nextId, inflight, wpc, outcome, inbound, nPeer, nPeerReq,
             hpc, replies, warnings, pendingAtClose>>

regVars == <<rwWriter, rwReaders, gpc, garg, regArr, regLen, regMap,
             snapTaken, snapShared, snapArr, snapLen, snapSeen>>

tmpVars == <<mcpServers, tstatus, tmpFiles, nCreated, cmdFile, mcpConfigFile>>

fnVars == <<callArg, callRet>>

subVars == <<sub>>

httpVars == <<http>>

sdkVars == <<sdk>>

vars == <<ccVars, mcpVars, ctlVars, regVars, tmpVars, fnVars, subVars, httpVars, sdkVars>>

\* what the ConcurrentClient actions leave alone
otherThanCC == <<mcpVars, ctlVars, regVars, tmpVars, fnVars, subVars, httpVars, sdkVars>>
\* what the SdkMCPServer actions leave alone
otherThanMcp == <<ccVars, ctlVars, regVars, tmpVars, fnVars, subVars, httpVars, sdkVars>>
\* what the control protocol engine's actions leave alone
otherThanCtl == <<ccVars, mcpVars, regVars, tmpVars, fnVars, subVars, httpVars, sdkVars>>
\* what the steps of goroutines sharing a registry leave alone
otherThanReg == <<ccVars, mcpVars, ctlVars, tmpVars, fnVars, subVars, httpVars, sdkVars>>
\* what the MCPServerTransport actions leave alone
otherThanTmp == <<ccVars, mcpVars, ctlVars, regVars, fnVars, subVars, httpVars, sdkVars>>
\* what the stdout reader and its consumer leave alone
otherThanSub == <<ccVars, mcpVars, ctlVars, regVars, tmpVars, fnVars, httpVars, sdkVars>>
\* what the HTTPTransport methods leave alone
otherThanHttp == <<ccVars, mcpVars, ctlVars, regVars, tmpVars, fnVars, subVars, sdkVars>>
\* what a call of a function leaves alone
otherThanFn == <<ccVars, mcpVars, ctlVars, regVars, tmpVars, subVars, httpVars, sdkVars>>
\* what the in-process server table's methods leave alone
otherThanSdk == <<ccVars, mcpVars, ctlVars, regVars, tmpVars, fnVars, subVars, httpVars>>

(***************************************************************************)
(* ConcurrentClient: construction.                                         *)
(***************************************************************************)
NewConcurrentClient ==
    /\ mu = Free
    /\ reqMu = Free
    /\ pc = [c \in Callers |-> "idle"]
    /\ cur = [c \in Callers |-> 0]
    /\ conn = "created"
    /\ nTurns = 0
    /\ turnKind = [t \in Turns |-> "none"]
    /\ msgs = <<>>
    /\ emitCount = 0
    /\ peerTurn = 1
    /\ fwpc = [t \in Turns |-> "none"]
    /\ fwMsg = [t \in Turns |-> NoMsg]
    /\ out = [t \in Turns |-> <<>>]
    /\ outHist = [t \in Turns |-> <<>>]
    /\ outClosed = [t \in Turns |-> FALSE]
    /\ recvd = [t \in Turns |-> <<>>]
    /\ early = [t \in Turns |-> FALSE]

\* Callers that are not inside a call are interchangeable (they hold no state):
\* the next call is made by the lowest-numbered one.
NextCaller(c) ==
    /\ pc[c] = "idle"
    /\ \A d \in Callers : pc[d] = "idle" => c <= d

fwVars == <<fwpc, fwMsg, out, outHist, outClosed, recvd, early>>
peerVars == <<msgs, emitCount, peerTurn>>

(***************************************************************************)
(* The wrapped Client.  Its code is not part of the sources at hand; the   *)
(* effects below follow the specification of the stateful session.         *)
(***************************************************************************)
\* Client.Connect: start the transport and perform the handshake.
ClientConnect(ok) ==
    conn' = IF conn = "created" /\ ok THEN "connected" ELSE conn

\* Client.Query / Client.QueryWithContent: write one user turn.
ClientCanSend == conn = "connected" /\ nTurns < MaxTurns

ClientSend(kind) ==
    /\ nTurns' = nTurns + 1
    /\ turnKind' = [turnKind EXCEPT ![nTurns + 1] = kind]

\* Client.Close
ClientClose ==
    conn' = "closed"

\* The messages of one turn's answer: k assistant messages, then one result.
Answer(t, k, g0) ==
    [i \in 1..(k + 1) |->
        [turn |-> t, type |-> IF i <= k THEN "assistant" ELSE "result", g |-> g0 + i]]

\* The peer answers the turns in the order they were written; the answer to
\* a turn reaches the session's message buffer in emission order.
PeerEmit ==
    /\ conn = "connected"
    /\ peerTurn <= nTurns
    /\ \E k \in 0..MaxAsst :
          /\ msgs' = msgs \o Answer(peerTurn, k, emitCount)
          /\ emitCount' = emitCount + k + 1
    /\ peerTurn' = peerTurn + 1
    /\ UNCHANGED <<mu, reqMu, pc, cur, conn, nTurns, turnKind, fwVars>>
    /\ UNCHANGED otherThanCC

(***************************************************************************)
(* ConcurrentClient methods guarded by c.mu:                               *)
(*     c.mu.Lock(); defer c.mu.Unlock(); return c.client.<method>(...)     *)
(* What the wrapped call does to the session is the method's body.         *)
(***************************************************************************)
ConnectBody ==
    /\ \E ok \in (IF conn = "created" THEN BOOLEAN ELSE {FALSE}) : ClientConnect(ok)
    /\ UNCHANGED <<nTurns, turnKind>>

QueryBody ==
    /\ IF ClientCanSend THEN ClientSend("legacy") ELSE UNCHANGED <<nTurns, turnKind>>
    /\ UNCHANGED conn

QueryWithContentBody ==
    /\ IF ClientCanSend THEN ClientSend("legacy") ELSE UNCHANGED <<nTurns, turnKind>>
    /\ UNCHANGED conn

CloseBody ==
    /\ ClientClose
    /\ UNCHANGED <<nTurns, turnKind>>

IsConnectedBody == UNCHANGED <<conn, nTurns, turnKind>>

InterruptBody == UNCHANGED <<conn, nTurns, turnKind>>

RewindFilesBody == UNCHANGED <<conn, nTurns, turnKind>>

\* a method that also waits for the turn lock
MuCall_TurnLock(c) ==
    /\ NextCaller(c)
    /\ mu = Free
    /\ reqMu = Free
    /\ UNCHANGED <<mu, reqMu, pc, cur, peerVars, fwVars>>
    /\ UNCHANGED otherThanCC

\* A whole call as one step: the bodies of the methods guarded by c.mu exclude
\* one another and nothing else reads c.mu, so a call acts on the session at
\* one point between its Lock and its Unlock.
MuCall(c) ==
    /\ NextCaller(c)
    /\ mu = Free
    /\ UNCHANGED <<mu, reqMu, pc, cur, peerVars, fwVars>>
    /\ UNCHANGED otherThanCC

Connect(c) == MuCall(c) /\ ConnectBody

\* the session takes at most MaxTurns turns
WithinTurns == conn = "connected" => nTurns < MaxTurns

Query(c) == MuCall(c) /\ WithinTurns /\ QueryBody

QueryWithContent(c) == MuCall(c) /\ WithinTurns /\ QueryWithContentBody

Close(c) == MuCall(c) /\ CloseBody

IsConnected(c) == MuCall(c) /\ IsConnectedBody

Interrupt(c) == MuCall(c) /\ InterruptBody

RewindFiles(c) == MuCall(c) /\ RewindFilesBody

(***************************************************************************)
(* The same methods with the span of the call made explicit: Lock and      *)
(* enter the wrapped call; the wrapped call returns and the deferred       *)
(* Unlock runs.                                                            *)
(***************************************************************************)
MuEnter(c, op) ==
    /\ NextCaller(c)
    /\ mu = Free
    /\ mu' = c
    /\ pc' = [pc EXCEPT ![c] = op]
    /\ UNCHANGED <<reqMu, cur, conn, nTurns, turnKind, peerVars, fwVars>>
    /\ UNCHANGED otherThanCC

MuExit(c, op) ==
    /\ pc[c] = op
    /\ mu' = Free
    /\ pc' = [pc EXCEPT ![c] = "idle"]
    /\ UNCHANGED <<reqMu, cur, peerVars, fwVars>>
    /\ UNCHANGED otherThanCC

ConnectLock(c) == MuEnter(c, "Connect")

ConnectUnlock(c) == MuExit(c, "Connect") /\ ConnectBody

QueryLock(c) == MuEnter(c, "Query")

QueryUnlock(c) == MuExit(c, "Query") /\ QueryBody

QueryWithContentLock(c) == MuEnter(c, "QueryWithContent")

QueryWithContentUnlock(c) == MuExit(c, "QueryWithContent") /\ QueryWithContentBody

CloseLock(c) == MuEnter(c, "Close")

CloseUnlock(c) == MuExit(c, "Close") /\ CloseBody

IsConnectedLock(c) == MuEnter(c, "IsConnected")

IsConnectedUnlock(c) == MuExit(c, "IsConnected") /\ IsConnectedBody

InterruptLock(c) == MuEnter(c, "Interrupt")

InterruptUnlock(c) == MuExit(c, "Interrupt") /\ InterruptBody

RewindFilesLock(c) == MuEnter(c, "RewindFiles")

RewindFilesUnlock(c) == MuExit(c, "RewindFiles") /\ RewindFilesBody

(***************************************************************************)
(* QueryAndReceive / QueryWithContentAndReceive.                           *)
(***************************************************************************)
\* a cycle that does not wait for the lock
ReqEnter_NoLock(c, op) ==
    /\ NextCaller(c)
    /\ reqMu' = c
    /\ pc' = [pc EXCEPT ![c] = op]
    /\ UNCHANGED <<mu, cur, conn, nTurns, turnKind, peerVars, fwVars>>
    /\ UNCHANGED otherThanCC

\* c.reqMu.Lock(), then the wrapped send begins
ReqEnter(c, op) ==
    /\ NextCaller(c)
    /\ reqMu = Free
    /\ reqMu' = c
    /\ pc' = [pc EXCEPT ![c] = op]
    /\ UNCHANGED <<mu, cur, conn, nTurns, turnKind, peerVars, fwVars>>
    /\ UNCHANGED otherThanCC

\* a cycle that returns the send error without Unlock
ReqSendReturn_KeepLock(c, op) ==
    /\ pc[c] = op
    /\ IF ClientCanSend
          THEN /\ ClientSend("qar")
               /\ fwpc' = [fwpc EXCEPT ![nTurns + 1] = "recv"]
               /\ pc' = [pc EXCEPT ![c] = "recv"]
               /\ cur' = [cur EXCEPT ![c] = nTurns + 1]
          ELSE /\ pc' = [pc EXCEPT ![c] = "idle"]
               /\ UNCHANGED <<nTurns, turnKind, fwpc, cur>>
    /\ UNCHANGED <<mu, reqMu, conn, peerVars, fwMsg, out, outHist, outClosed, recvd, early>>
    /\ UNCHANGED otherThanCC

\* The wrapped send returns.  On error: Unlock and return the error.
\* Otherwise: upstream := ReceiveResponse(ctx); out := make(chan, 10);
\* start the forwarder; return out.
ReqSendReturn(c, op) ==
    /\ pc[c] = op
    /\ IF ClientCanSend
          THEN /\ ClientSend("qar")
               /\ fwpc' = [fwpc EXCEPT ![nTurns + 1] = "recv"]
               /\ pc' = [pc EXCEPT ![c] = "recv"]
               /\ cur' = [cur EXCEPT ![c] = nTurns + 1]
               /\ UNCHANGED reqMu
          ELSE /\ reqMu' = Free
               /\ pc' = [pc EXCEPT ![c] = "idle"]
               /\ UNCHANGED <<nTurns, turnKind, fwpc, cur>>
    /\ UNCHANGED <<mu, conn, peerVars, fwMsg, out, outHist, outClosed, recvd, early>>
    /\ UNCHANGED otherThanCC

QueryAndReceive(c) == ReqEnter(c, "QueryAndReceive")

QueryAndReceiveSent(c) == ReqSendReturn(c, "QueryAndReceive")

QueryWithContentAndReceive(c) == ReqEnter(c, "QueryWithContentAndReceive")

QueryWithContentAndReceiveSent(c) == ReqSendReturn(c, "QueryWithContentAndReceive")

(***************************************************************************)
(* The forwarder goroutine of a cycle.                                     *)
(***************************************************************************)
\* for msg := range upstream
FwRecv(t) ==
    /\ fwpc[t] = "recv"
    /\ msgs # <<>>
    /\ fwMsg' = [fwMsg EXCEPT ![t] = Head(msgs)]
    /\ msgs' = Tail(msgs)
    /\ fwpc' = [fwpc EXCEPT ![t] = "send"]
    /\ UNCHANGED <<mu, reqMu, pc, cur, conn, nTurns, turnKind, emitCount, peerTurn,
                   out, outHist, outClosed, recvd, early>>
    /\ UNCHANGED otherThanCC

\* upstream is closed before a result came (the context was cancelled or
\* the session was closed): the range loop ends
FwUpstreamClosed(t) ==
    /\ fwpc[t] = "recv"
    /\ fwpc' = [fwpc EXCEPT ![t] = "unlock"]
    /\ early' = [early EXCEPT ![t] = TRUE]
    /\ UNCHANGED <<mu, reqMu, pc, cur, conn, nTurns, turnKind, peerVars,
                   fwMsg, out, outHist, outClosed, recvd>>
    /\ UNCHANGED otherThanCC

\* a forwarder that tests for the result before forwarding it
FwSend_CheckFirst(t) ==
    /\ fwpc[t] = "send"
    /\ Len(out[t]) < OutCap
    /\ IF fwMsg[t].type = "result"
          THEN /\ fwpc' = [fwpc EXCEPT ![t] = "unlock"]
               /\ UNCHANGED <<out, outHist>>
          ELSE /\ fwpc' = [fwpc EXCEPT ![t] = "recv"]
               /\ out' = [out EXCEPT ![t] = Append(@, fwMsg[t])]
               /\ outHist' = [outHist EXCEPT ![t] = Append(@, fwMsg[t])]
    /\ fwMsg' = [fwMsg EXCEPT ![t] = NoMsg]
    /\ UNCHANGED <<mu, reqMu, pc, cur, conn, nTurns, turnKind, peerVars,
                   outClosed, recvd, early>>
    /\ UNCHANGED otherThanCC

\* out <- msg; if msg is a ResultMessage: return
FwSend(t) ==
    /\ fwpc[t] = "send"
    /\ Len(out[t]) < OutCap
    /\ out' = [out EXCEPT ![t] = Append(@, fwMsg[t])]
    /\ outHist' = [outHist EXCEPT ![t] = Append(@, fwMsg[t])]
    /\ fwpc' = [fwpc EXCEPT ![t] = IF fwMsg[t].type = "result" THEN "unlock" ELSE "recv"]
    /\ fwMsg' = [fwMsg EXCEPT ![t] = NoMsg]
    /\ UNCHANGED <<mu, reqMu, pc, cur, conn, nTurns, turnKind, peerVars,
                   outClosed, recvd, early>>
    /\ UNCHANGED otherThanCC

\* defer c.reqMu.Unlock()  (registered last, runs first)
FwUnlock(t) ==
    /\ fwpc[t] = "unlock"
    /\ reqMu' = Free
    /\ fwpc' = [fwpc EXCEPT ![t] = "close"]
    /\ UNCHANGED <<mu, pc, cur, conn, nTurns, turnKind, peerVars,
                   fwMsg, out, outHist, outClosed, recvd, early>>
    /\ UNCHANGED otherThanCC

\* defer close(out)
FwClose(t) ==
    /\ fwpc[t] = "close"
    /\ outClosed' = [outClosed EXCEPT ![t] = TRUE]
    /\ fwpc' = [fwpc EXCEPT ![t] = "done"]
    /\ UNCHANGED <<mu, reqMu, pc, cur, conn, nTurns, turnKind, peerVars,
                   fwMsg, out, outHist, recvd, early>>
    /\ UNCHANGED otherThanCC

(***************************************************************************)
(* The caller ranging over the channel QueryAndReceive returned.           *)
(***************************************************************************)
ConsumerRecv(c) ==
    /\ pc[c] = "recv"
    /\ out[cur[c]] # <<>>
    /\ recvd' = [recvd EXCEPT ![cur[c]] = Append(@, Head(out[cur[c]]))]
    /\ out' = [out EXCEPT ![cur[c]] = Tail(@)]
    /\ UNCHANGED <<mu, reqMu, pc, cur, conn, nTurns, turnKind, peerVars,
                   fwpc, fwMsg, outHist, outClosed, early>>
    /\ UNCHANGED otherThanCC

\* the range loop ends: the channel is closed and empty
ConsumerDone(c) ==
    /\ pc[c] = "recv"
    /\ out[cur[c]] = <<>>
    /\ outClosed[cur[c]]
    /\ pc' = [pc EXCEPT ![c] = "idle"]
    /\ cur' = [cur EXCEPT ![c] = 0]
    /\ UNCHANGED <<mu, reqMu, conn, nTurns, turnKind, peerVars, fwVars>>
    /\ UNCHANGED otherThanCC

\* the steps of a query/response cycle
CycleStep ==
    \/ \E c \in Callers : QueryAndReceive(c)
    \/ \E c \in Callers : QueryAndReceiveSent(c)
    \/ \E c \in Callers : QueryWithContentAndReceive(c)
    \/ \E c \in Callers : QueryWithContentAndReceiveSent(c)
    \/ \E t \in Turns : FwRecv(t)
    \/ \E t \in Turns : FwUpstreamClosed(t)
    \/ \E t \in Turns : FwSend(t)
    \/ \E t \in Turns : FwUnlock(t)
    \/ \E t \in Turns : FwClose(t)
    \/ \E c \in Callers : ConsumerRecv(c)
    \/ \E c \in Callers : ConsumerDone(c)
    \/ PeerEmit

\* The calls that write to the session, as whole steps, and the cycles.  The
\* calls that leave the session as it is are steps of NextSignals and NextCalls.
NextCC ==
    \/ \E c \in Callers : Connect(c)
    \/ \E c \in Callers : Query(c)
    \/ \E c \in Callers : QueryWithContent(c)
    \/ \E c \in Callers : Close(c)
    \/ CycleStep

NextCalls ==
    \/ \E c \in Callers : ConnectLock(c)
    \/ \E c \in Callers : ConnectUnlock(c)
    \/ \E c \in Callers : QueryLock(c)
    \/ \E c \in Callers : QueryUnlock(c)
    \/ \E c \in Callers : QueryWithContentLock(c)
    \/ \E c \in Callers : QueryWithContentUnlock(c)
    \/ \E c \in Callers : CloseLock(c)
    \/ \E c \in Callers : CloseUnlock(c)
    \/ \E c \in Callers : IsConnectedLock(c)
    \/ \E c \in Callers : IsConnectedUnlock(c)
    \/ \E c \in Callers : InterruptLock(c)
    \/ \E c \in Callers : InterruptUnlock(c)
    \/ \E c \in Callers : RewindFilesLock(c)
    \/ \E c \in Callers : RewindFilesUnlock(c)
    \/ CycleStep

(***************************************************************************)
(* Query/response cycles whose answers do not fit the per-turn channel.    *)
(***************************************************************************)
\* The peer answers a turn with as many assistant messages as the per-turn
\* channel holds, then the result: one message more than make(chan, 10) buffers.
PeerEmitLong ==
    /\ conn = "connected"
    /\ peerTurn <= nTurns
    /\ msgs' = msgs \o Answer(peerTurn, OutCap, emitCount)
    /\ emitCount' = emitCount + OutCap + 1
    /\ peerTurn' = peerTurn + 1
    /\ UNCHANGED <<mu, reqMu, pc, cur, conn, nTurns, turnKind, fwVars>>
    /\ UNCHANGED otherThanCC

\* Connect, then cycles only; answers are short or long.
NextLong ==
    \/ \E c \in Callers : Connect(c)
    \/ CycleStep
    \/ PeerEmitLong

\* The forwarder goroutines are scheduled: a step of one that stays possible
\* is taken.  Nothing makes a caller go on reading the channel it was given,
\* and nothing makes a context end.
FairForwarders ==
    \A t \in Turns :
        /\ WF_vars(FwRecv(t))
        /\ WF_vars(FwSend(t))
        /\ WF_vars(FwUnlock(t))
        /\ WF_vars(FwClose(t))

\* Interrupt, Close and the calls that only read, beside the cycles.
NextSignals ==
    \/ \E c \in Callers : Connect(c)
    \/ \E c \in Callers : Interrupt(c)
    \/ \E c \in Callers : Close(c)
    \/ \E c \in Callers : IsConnected(c)
    \/ \E c \in Callers : RewindFiles(c)
    \/ CycleStep

(***************************************************************************)
(* Properties of ConcurrentClient.                                         *)
(***************************************************************************)
\* the turns sent by QueryAndReceive / QueryWithContentAndReceive
QarTurns == {t \in Turns : turnKind[t] = "qar"}

IsResultOf(m, t) == m.turn = t /\ m.type = "result"

\* the sequence holds the result message of turn t
HasResultOf(q, t) == \E i \in 1..Len(q) : IsResultOf(q[i], t)

\* the sequence holds a message of turn t
HasMsgOf(q, t) == \E i \in 1..Len(q) : q[i].turn = t

\* only the serialized variant has sent turns, and every upstream ran to its
\* result
Clean ==
    /\ \A t \in Turns : turnKind[t] # "legacy"
    /\ \A t \in Turns : ~early[t]

\* C1 as stated: for turns A before B of the serialized variant, a consumer
\* has received A's result before any of B's messages is delivered to a consumer.
C1_ConsumerSeesResultFirst ==
    Clean =>
        \A A, B \in QarTurns :
            (A < B /\ \E t \in Turns : HasMsgOf(recvd[t], B))
                => \E t \in Turns : HasResultOf(recvd[t], A)

\* C1, amended: for turns A before B of the serialized variant, A's result has
\* been forwarded into a per-turn channel before any of B's messages is
\* forwarded into one; it is A's own channel when only the serialized variant
\* sent turns and every upstream ran to its result.  The consumer of that
\* channel need not have received it.
C1_ResultForwardedFirst ==
    \A A, B \in QarTurns :
        (A < B /\ \E t \in Turns : HasMsgOf(outHist[t], B))
            => /\ \E t \in Turns : HasResultOf(outHist[t], A)
               /\ Clean => HasResultOf(outHist[A], A)

\* C1 witness: B's consumer has received a message of B while A's result sits
\* in A's channel, not yet received.
C1_Witness ==
    /\ Clean
    /\ \E A, B \in QarTurns :
          /\ A < B
          /\ HasResultOf(out[A], A)
          /\ ~HasResultOf(recvd[A], A)
          /\ HasMsgOf(recvd[B], B)

\* the result of turn t has been forwarded to a per-turn channel
ResultDrained(t) == \E u \in Turns : HasResultOf(outHist[u], t)

\* C2: from the moment a turn is sent by QueryAndReceive /
\* QueryWithContentAndReceive until its result has been drained, no send
\* operation of the wrapper writes another user turn.
C2_NoTurnWrittenInSpan ==
    [][(\E t \in QarTurns : ~ResultDrained(t)) => nTurns' = nTurns]_vars

ClientCalls ==
    {"Connect", "Query", "QueryWithContent", "Close", "IsConnected", "Interrupt",
     "RewindFiles", "QueryAndReceive", "QueryWithContentAndReceive"}

\* C4: at no time are two calls into the wrapped Client executing concurrently.
C4_OneClientCallAtATime ==
    Cardinality({c \in Callers : pc[c] \in ClientCalls}) <= 1

\* the forwarder of turn t runs and has not yet released c.reqMu
HoldsTurnLock(t) == fwpc[t] \in {"recv", "send", "unlock"}

\* the peer has written the whole answer to turn t, its result included
AnswerEmitted(t) == peerTurn > t

\* C28: once the answer to a turn has been emitted upstream, the forwarder of
\* that turn eventually releases the turn lock, whether or not the caller goes
\* on reading the per-turn channel: a caller waiting for the lock proceeds.
C28_TurnLockEventuallyReleased ==
    \A t \in Turns : (HoldsTurnLock(t) /\ AnswerEmitted(t)) ~> ~HoldsTurnLock(t)

\* the callers between c.reqMu.Lock() and the return of the wrapped send
Sending == {c \in Callers : pc[c] \in {"QueryAndReceive", "QueryWithContentAndReceive"}}

\* the turns whose forwarder has not yet run its deferred Unlock
Forwarding == {t \in Turns : HoldsTurnLock(t)}

\* C29: the turn lock is held exactly from its acquisition to the one release
\* of the cycle that acquired it: while a cycle sends or its forwarder runs the
\* lock is held by that cycle's caller, after the release (send error, result
\* forwarded, upstream closed) it is held by nobody of that cycle, and it is
\* never held for a turn whose per-turn channel has been closed.
C29_TurnLockReleasedOnce ==
    /\ reqMu = Free => Sending = {} /\ Forwarding = {}
    /\ reqMu # Free =>
          \/ Sending = {reqMu} /\ Forwarding = {}
          \/ Sending = {} /\ pc[reqMu] = "recv" /\ Forwarding = {cur[reqMu]}
    /\ \A t \in Turns : outClosed[t] => ~(reqMu # Free /\ cur[reqMu] = t)

\* C29 witness: one cycle ended with its result forwarded, another with its
\* upstream closed before a result, and a third holds the lock inside a send
\* that is going to fail.
C29_Witness ==
    /\ \E t, u \in Turns : outClosed[t] /\ ~early[t] /\ outClosed[u] /\ early[u]
    /\ \E c \in Callers : Sending = {c} /\ reqMu = c
    /\ ~ClientCanSend

\* a turn sent by QueryAndReceive is waiting for its result
WaitingForResult(t) == fwpc[t] = "recv" /\ ~AnswerEmitted(t)

\* C30: while a turn is waiting for its result, a caller that is not inside
\* a call can make an Interrupt call and a Close call, and each completes.
C30_SignalsNotBlockedByTurn ==
    (\E t \in Turns : WaitingForResult(t)) =>
        \A c \in Callers :
            NextCaller(c) => ENABLED Interrupt(c) /\ ENABLED Close(c)

\* C30 witness: a turn is still waiting for its result, a Close issued after
\* the turn was sent has returned, and a caller is free to call Interrupt.
C30_Witness ==
    /\ \E t \in Turns : WaitingForResult(t)
    /\ conn = "closed"
    /\ \E c \in Callers : NextCaller(c)

(***************************************************************************)
(* JSON values as Go decodes them into interface{}.                        *)
(***************************************************************************)
JStr(s) == [k |-> "string", v |-> s]
\* a float64; v counts halves, so JNum(5) is 2.5 and JNum(4) is 2
JNum(h) == [k |-> "float64", v |-> h]
\* a Go int, as written in a literal such as []interface{}{1, 2}
JInt(n) == [k |-> "int", v |-> n]
JBool(b) == [k |-> "bool", v |-> b]
JArr(a) == [k |-> "[]interface{}", v |-> a]
JObj(f) == [k |-> "map[string]interface{}", v |-> f]
JNull == [k |-> "nil", v |-> 0]

IsStr(x) == x.k = "string"
IsObj(x) == x.k = "map[string]interface{}"
\* f == float64(int64(f))
IsIntegral(x) == x.v % 2 = 0

\* m[key], nil when the key is absent
Get(m, key) == IF key \in DOMAIN m THEN m[key] ELSE JNull

(***************************************************************************)
(* JSON-RPC responses.                                                     *)
(***************************************************************************)
ErrorCodeParseError == -32700
ErrorCodeInvalidRequest == -32600
ErrorCodeMethodNotFound == -32601
ErrorCodeInvalidParams == -32602
ErrorCodeInternalError == -32603

NewSuccessResponse(id, result) ==
    [JsonRpc |-> "2.0", ID |-> id, Result |-> result]

NewErrorResponse(id, code, message) ==
    [JsonRpc |-> "2.0", ID |-> id, Error |-> [Code |-> code, Message |-> message]]

\* ToolResult through json.Marshal / json.Unmarshal: `isError` is tagged
\* omitempty, so it is written only when true
MarshalContent(c) ==
    JArr([i \in DOMAIN c |-> JObj([type |-> JStr(c[i].Type), text |-> JStr(c[i].Text)])])

\* a ToolResult whose error flag is never written
MarshalToolResult_NoFlag(r) ==
    [content |-> MarshalContent(r.Content)]

MarshalToolResult(r) ==
    IF r.IsError
        THEN [content |-> MarshalContent(r.Content), isError |-> JBool(TRUE)]
        ELSE [content |-> MarshalContent(r.Content)]

responseToMap(resp) ==
    IF "Error" \in DOMAIN resp
        THEN [jsonrpc |-> resp.JsonRpc, id |-> resp.ID,
              error |-> [code |-> resp.Error.Code, message |-> resp.Error.Message]]
        ELSE [jsonrpc |-> resp.JsonRpc, id |-> resp.ID, result |-> resp.Result]

(***************************************************************************)
(* validateInput: the set of errors a call can return (the order in which  *)
(* a Go map is ranged over is not fixed); empty when it returns nil.       *)
(***************************************************************************)
RECURSIVE validateInput(_, _)

\* the index of the first required field the input lacks, 0 if none
FirstMissing(required, input) ==
    LET miss == {i \in 1..Len(required) : required[i] \notin DOMAIN input}
    IN IF miss = {} THEN 0 ELSE CHOOSE i \in miss : \A j \in miss : i <= j

TypeOk(propType, value) ==
    CASE propType = "string"  -> value.k = "string"
      [] propType = "number"  -> value.k = "float64"
      [] propType = "integer" -> value.k = "float64" /\ IsIntegral(value)
      [] propType = "boolean" -> value.k = "bool"
      [] propType = "array"   -> value.k = "[]interface{}"
      [] propType = "object"  -> value.k = "map[string]interface{}"
      [] OTHER -> TRUE

\* the errors the loop body can return for one key of the input
KeyErrors(properties, input, key) ==
    IF key \notin DOMAIN properties
        THEN {[kind |-> "unknown field", field |-> key]}
    ELSE LET prop == properties[key]
             value == input[key]
         IN IF "type" \notin DOMAIN prop THEN {}
            ELSE IF ~TypeOk(prop.type, value)
                THEN {[kind |-> "must be " \o prop.type, field |-> key]}
            ELSE LET nested ==
                         IF prop.type = "object" /\ "properties" \in DOMAIN prop
                             THEN validateInput(
                                      IF "required" \in DOMAIN prop
                                          THEN [type |-> "object",
                                                properties |-> prop.properties,
                                                required |-> prop.required]
                                          ELSE [type |-> "object",
                                                properties |-> prop.properties],
                                      value.v)
                             ELSE {}
                 IN IF nested # {}
                        THEN {[kind |-> "nested validation failed", field |-> key,
                               inner |-> e] : e \in nested}
                    ELSE IF "enum" \in DOMAIN prop /\ value \notin prop.enum
                        THEN {[kind |-> "must be one of", field |-> key]}
                    ELSE {}

validateInput(schema, input) ==
    IF ~("type" \in DOMAIN schema /\ schema.type = "object")
        THEN {[kind |-> "invalid schema type", field |-> ""]}
    ELSE IF "required" \in DOMAIN schema /\ FirstMissing(schema.required, input) # 0
        THEN {[kind |-> "missing required field",
               field |-> schema.required[FirstMissing(schema.required, input)]]}
    ELSE IF "properties" \notin DOMAIN schema
        THEN {[kind |-> "invalid schema properties", field |-> ""]}
    ELSE UNION {KeyErrors(schema.properties, input, key) : key \in DOMAIN input}

(***************************************************************************)
(* tool.Execute.  `verr` is the error validateInput returned (one of the   *)
(* errors it can return), `hout` what the handler does when it is called.  *)
(* The result names the handler invocation, if any.                        *)
(***************************************************************************)
CustomValidatorOk(t, input) ==
    CASE t.validator = "none" -> TRUE
      [] t.validator = "nonEmptyText" -> "text" \in DOMAIN input /\ input["text"] # JStr("")
      [] OTHER -> TRUE

HandlerResult(hout) ==
    CASE hout = "ok"      -> [err |-> "", res |-> [Content |-> <<[Type |-> "text", Text |-> "done"]>>,
                                               IsError |-> FALSE]]
      [] hout = "isError" -> [err |-> "", res |-> [Content |-> <<[Type |-> "text", Text |-> "failed"]>>,
                                               IsError |-> TRUE]]
      [] OTHER            -> [err |-> "handler failed", res |-> [Content |-> <<>>, IsError |-> FALSE]]

NewMcpToolResult(text) == [Content |-> <<[Type |-> "text", Text |-> text]>>, IsError |-> FALSE]

NewErrorMcpToolResult(message) ==
    [Content |-> <<[Type |-> "text", Text |-> message]>>, IsError |-> TRUE]

\* a divide tool whose handler returns a Go error for a zero divisor
divide_ReturnsError(args) ==
    IF args["b"].v = 0
        THEN [err |-> "division by zero", res |-> [Content |-> <<>>, IsError |-> FALSE]]
        ELSE [err |-> "", res |-> NewMcpToolResult("a / b = quotient")]

\* the handler of the calculator toolkit's divide tool; the text of a
\* quotient is fmt.Sprintf("%.2f / %.2f = %.2f", a, b, a/b)
divide(args) ==
    IF args["b"].v = 0
        THEN [err |-> "", res |-> NewErrorMcpToolResult("Division by zero is not allowed")]
        ELSE [err |-> "", res |-> NewMcpToolResult("a / b = quotient")]

\* t.handler(ctx, input)
CallHandler(t, input, hout) ==
    IF t.handler = "divide" THEN divide(input) ELSE HandlerResult(hout)

\* a tool that runs its handler before the custom validator
Execute_HandlerFirst(t, input, verr, hout) ==
    IF validateInput(t.inputSchema, input) # {}
        THEN [called |-> FALSE, err |-> "input validation failed", cause |-> verr,
              res |-> [Content |-> <<>>, IsError |-> FALSE]]
    ELSE IF ~CustomValidatorOk(t, input)
        THEN [called |-> TRUE, err |-> "custom validation failed", cause |-> verr,
              res |-> [Content |-> <<>>, IsError |-> FALSE]]
    ELSE [called |-> TRUE, err |-> CallHandler(t, input, hout).err, cause |-> verr,
          res |-> CallHandler(t, input, hout).res]

Execute(t, input, verr, hout) ==
    IF validateInput(t.inputSchema, input) # {}
        THEN [called |-> FALSE, err |-> "input validation failed", cause |-> verr,
              res |-> [Content |-> <<>>, IsError |-> FALSE]]
    ELSE IF ~CustomValidatorOk(t, input)
        THEN [called |-> FALSE, err |-> "custom validation failed", cause |-> verr,
              res |-> [Content |-> <<>>, IsError |-> FALSE]]
    ELSE [called |-> TRUE, err |-> CallHandler(t, input, hout).err, cause |-> verr,
          res |-> CallHandler(t, input, hout).res]


(***************************************************************************)
(* SdkMCPServer                                                            *)
(***************************************************************************)
ServerName == "calc"
ServerVersion == "1.0.0"

RECURSIVE IndexTools(_, _)
\* for _, tool := range tools { server.toolsMap[tool.Name()] = tool }
IndexTools(ts, m) ==
    IF ts = <<>> THEN m
    ELSE IndexTools(Tail(ts),
                    [n \in DOMAIN m \cup {Head(ts).name} |->
                        IF n = Head(ts).name THEN Head(ts) ELSE m[n]])

EmptyMap == [n \in {} |-> 0]

NewSdkMCPServer(ts) ==
    [tools |-> ts, toolsMap |-> IndexTools(ts, EmptyMap)]

\* the index of the first tool of the list with that name, 0 if none
FirstNamed(ts, name) ==
    LET at == {i \in 1..Len(ts) : ts[i].name = name}
    IN IF at = {} THEN 0 ELSE CHOOSE i \in at : \A j \in at : i <= j

RemoveAt(ts, i) ==
    [j \in 1..(Len(ts) - 1) |-> IF j < i THEN ts[j] ELSE ts[j + 1]]

handleInitialize(msg) ==
    [ok |-> TRUE, called |-> FALSE,
     resp |-> responseToMap(NewSuccessResponse(Get(msg, "id"),
                  [protocolVersion |-> "0.1.0",
                   capabilities |-> [tools |-> [listChanged |-> FALSE]],
                   serverInfo |-> [name |-> ServerName, version |-> ServerVersion]]))]

handleToolsList(msg, ts) ==
    [ok |-> TRUE, called |-> FALSE,
     resp |-> responseToMap(NewSuccessResponse(Get(msg, "id"),
                  [tools |-> [i \in 1..Len(ts) |->
                                 [name |-> ts[i].name,
                                  description |-> ts[i].description,
                                  inputSchema |-> ts[i].inputSchema]]]))]

ErrorReply(id, code, message) ==
    [ok |-> TRUE, called |-> FALSE, resp |-> responseToMap(NewErrorResponse(id, code, message))]

\* a handler that tests the arguments before it looks the tool up
handleToolsCall_ArgsFirst(msg, tm, verr, hout) ==
    LET id == Get(msg, "id")
        params == Get(msg, "params")
    IN IF ~IsObj(params)
           THEN ErrorReply(id, ErrorCodeInvalidParams, "missing or invalid params")
       ELSE IF ~IsStr(Get(params.v, "name"))
           THEN ErrorReply(id, ErrorCodeInvalidParams, "missing or invalid tool name")
       ELSE IF ~IsObj(Get(params.v, "arguments"))
           THEN ErrorReply(id, ErrorCodeInvalidParams, "missing or invalid arguments")
       ELSE IF Get(params.v, "name").v \notin DOMAIN tm
           THEN ErrorReply(id, ErrorCodeMethodNotFound, "tool not found")
       ELSE LET t == tm[Get(params.v, "name").v]
                input == Get(params.v, "arguments").v
                r == Execute(t, input, verr, hout)
            IN IF r.err # ""
                   THEN [ok |-> TRUE, called |-> r.called,
                         resp |-> responseToMap(NewErrorResponse(id, ErrorCodeInternalError,
                                      [text |-> "tool execution failed", err |-> r.err,
                                       cause |-> r.cause]))]
                   ELSE [ok |-> TRUE, called |-> r.called,
                         resp |-> responseToMap(NewSuccessResponse(id,
                                      MarshalToolResult(r.res)))]

handleToolsCall(msg, tm, verr, hout) ==
    LET id == Get(msg, "id")
        params == Get(msg, "params")
    IN IF ~IsObj(params)
           THEN ErrorReply(id, ErrorCodeInvalidParams, "missing or invalid params")
       ELSE IF ~IsStr(Get(params.v, "name"))
           THEN ErrorReply(id, ErrorCodeInvalidParams, "missing or invalid tool name")
       ELSE IF Get(params.v, "name").v \notin DOMAIN tm
           THEN ErrorReply(id, ErrorCodeMethodNotFound, "tool not found")
       ELSE IF ~IsObj(Get(params.v, "arguments"))
           THEN ErrorReply(id, ErrorCodeInvalidParams, "missing or invalid arguments")
       ELSE LET t == tm[Get(params.v, "name").v]
                input == Get(params.v, "arguments").v
                r == Execute(t, input, verr, hout)
            IN IF r.err # ""
                   THEN [ok |-> TRUE, called |-> r.called,
                         resp |-> responseToMap(NewErrorResponse(id, ErrorCodeInternalError,
                                      [text |-> "tool execution failed", err |-> r.err,
                                       cause |-> r.cause]))]
                   ELSE [ok |-> TRUE, called |-> r.called,
                         resp |-> responseToMap(NewSuccessResponse(id,
                                      MarshalToolResult(r.res)))]

HandleMessage(msg, ts, tm, verr, hout) ==
    IF ~IsStr(Get(msg, "method"))
        THEN [ok |-> FALSE, called |-> FALSE,
              resp |-> [goerror |-> "missing or invalid method field"]]
    ELSE CASE msg["method"].v = "initialize" -> handleInitialize(msg)
           [] msg["method"].v = "tools/list" -> handleToolsList(msg, ts)
           [] msg["method"].v = "tools/call" -> handleToolsCall(msg, tm, verr, hout)
           [] OTHER -> ErrorReply(Get(msg, "id"), ErrorCodeMethodNotFound, "method not found")

(***************************************************************************)
(* The tools, argument objects and messages the model draws from.          *)
(***************************************************************************)
MaxTools == 2

SchemaAB ==
    [type |-> "object",
     properties |-> [a |-> [type |-> "number"], b |-> [type |-> "number"]],
     required |-> <<"a", "b">>]

SchemaEcho ==
    [type |-> "object",
     properties |->
        [text |-> [type |-> "string"],
         mode |-> [type |-> "string", enum |-> {JStr("plain"), JStr("upper")}],
         opts |-> [type |-> "object",
                   properties |-> [n |-> [type |-> "integer"]],
                   required |-> <<"n">>]],
     required |-> <<"text">>]

\* SimpleTool{Parameters: {"level": {Type: "integer", Required: true,
\* Enum: []interface{}{1, 2}}}}.Build()
SchemaLevel ==
    [type |-> "object",
     properties |-> [level |-> [type |-> "integer", enum |-> {JInt(1), JInt(2)}]],
     required |-> <<"level">>]

ToolUniverse ==
    { [name |-> "add", description |-> "adds", inputSchema |-> SchemaAB, validator |-> "none",
       handler |-> "stub"],
      [name |-> "add", description |-> "adds, second edition", inputSchema |-> SchemaAB,
       validator |-> "none", handler |-> "stub"],
      [name |-> "echo", description |-> "echoes", inputSchema |-> SchemaEcho,
       validator |-> "nonEmptyText", handler |-> "stub"],
      [name |-> "level", description |-> "sets the level", inputSchema |-> SchemaLevel,
       validator |-> "none", handler |-> "stub"],
      [name |-> "divide", description |-> "Divide first number by second",
       inputSchema |-> SchemaAB, validator |-> "none", handler |-> "divide"] }

ToolNames == {"add", "echo", "level", "nonexistent"}

AddArgs ==
    { [a |-> JNum(5), b |-> JNum(7)],
      [a |-> JNum(5)],
      [a |-> JNum(5), b |-> JStr("x")],
      [a |-> JStr("x"), b |-> JBool(TRUE)],
      [a |-> JNum(5), b |-> JNum(7), c |-> JNum(2)] }

EchoArgs ==
    { [text |-> JStr("hi")],
      [text |-> JStr("")],
      [text |-> JStr("hi"), mode |-> JStr("loud")],
      [text |-> JStr(""), mode |-> JStr("loud")],
      [text |-> JStr("hi"), opts |-> JObj([n |-> JNum(3)])] }

\* level 2, 3 and 1.5 as encoding/json decodes them
LevelArgs ==
    { [level |-> JNum(4)], [level |-> JNum(6)], [level |-> JNum(3)] }

\* 2 / 0 and 2 / 1
DivideArgs ==
    { [a |-> JNum(4), b |-> JNum(0)], [a |-> JNum(4), b |-> JNum(2)] }

ParamSets ==
    {JStr("x"),
     JObj([arguments |-> JObj([a |-> JNum(5), b |-> JNum(7)])]),
     JObj([name |-> JNum(2), arguments |-> JObj([a |-> JNum(5), b |-> JNum(7)])]),
     JObj([name |-> JStr("nonexistent"), arguments |-> JObj([a |-> JNum(5), b |-> JNum(7)])])}
    \cup {JObj([name |-> JStr(n)]) : n \in {"add", "nonexistent"}}
    \cup {JObj([name |-> JStr(n), arguments |-> JStr("x")]) : n \in {"add", "nonexistent"}}
    \cup {JObj([name |-> JStr("add"), arguments |-> JObj(a)]) : a \in AddArgs}
    \cup {JObj([name |-> JStr("echo"), arguments |-> JObj(a)]) : a \in EchoArgs}
    \cup {JObj([name |-> JStr("level"), arguments |-> JObj(a)]) : a \in LevelArgs}
    \cup {JObj([name |-> JStr("divide"), arguments |-> JObj(a)]) : a \in DivideArgs}

MsgId == JNum(14)

McpMsgs ==
    {[id |-> MsgId], [method |-> JStr("resources/list")]}
    \cup {[id |-> MsgId, method |-> m] :
            m \in {JNum(2), JStr("initialize"), JStr("tools/list"), JStr("resources/list"),
                   JStr("tools/call")}}
    \cup {[id |-> MsgId, method |-> JStr("tools/call"), params |-> p] : p \in ParamSets}
    \cup {[method |-> JStr("tools/call"), params |-> JObj([name |-> JStr("nonexistent")])]}

HandlerOutcomes == {"ok", "isError", "error"}

NoError == [kind |-> "", field |-> ""]

\* the errors validateInput can return while this message is handled
PossibleCauses(msg, tm) ==
    LET params == Get(msg, "params")
    IN IF /\ IsObj(params)
          /\ IsStr(Get(params.v, "name"))
          /\ Get(params.v, "name").v \in DOMAIN tm
          /\ IsObj(Get(params.v, "arguments"))
          /\ validateInput(tm[Get(params.v, "name").v].inputSchema,
                           Get(params.v, "arguments").v) # {}
          THEN validateInput(tm[Get(params.v, "name").v].inputSchema,
                             Get(params.v, "arguments").v)
          ELSE {NoError}

\* what the handler can do while this message is handled: a stub handler
\* that is reached may succeed, report a tool error or fail
HandlerChoices(msg, tm) ==
    LET params == Get(msg, "params")
    IN IF /\ IsObj(params)
          /\ IsStr(Get(params.v, "name"))
          /\ Get(params.v, "name").v \in DOMAIN tm
          /\ IsObj(Get(params.v, "arguments"))
          /\ tm[Get(params.v, "name").v].handler = "stub"
          THEN HandlerOutcomes
          ELSE {"ok"}

RECURSIVE SeqsUpTo(_, _)
SeqsUpTo(S, n) ==
    IF n = 0 THEN {<<>>}
    ELSE SeqsUpTo(S, n - 1) \cup {Append(q, x) : q \in SeqsUpTo(S, n - 1), x \in S}

NoMessage == [none |-> JNull]
NoReturn == [ok |-> FALSE, called |-> FALSE, resp |-> [none |-> TRUE]]

\* a server as NewSdkMCPServer leaves it
McpConstructed(ts) ==
    /\ tools = NewSdkMCPServer(ts).tools
    /\ toolsMap = NewSdkMCPServer(ts).toolsMap
    /\ lastMsg = NoMessage
    /\ lastRet = NoReturn
    /\ opErr = ""

AddTool(tool) ==
    /\ IF tool.name \in DOMAIN toolsMap
          THEN /\ opErr' = "tool already exists"
               /\ UNCHANGED <<tools, toolsMap>>
          ELSE /\ Len(tools) < MaxTools
               /\ tools' = Append(tools, tool)
               /\ toolsMap' = [n \in DOMAIN toolsMap \cup {tool.name} |->
                                  IF n = tool.name THEN tool ELSE toolsMap[n]]
               /\ opErr' = ""
    /\ UNCHANGED <<lastMsg, lastRet>>
    /\ UNCHANGED otherThanMcp

RemoveTool(name) ==
    /\ IF name \notin DOMAIN toolsMap
          THEN /\ opErr' = "tool not found"
               /\ UNCHANGED <<tools, toolsMap>>
          ELSE /\ toolsMap' = [n \in DOMAIN toolsMap \ {name} |-> toolsMap[n]]
               /\ tools' = IF FirstNamed(tools, name) = 0 THEN tools
                           ELSE RemoveAt(tools, FirstNamed(tools, name))
               /\ opErr' = ""
    /\ UNCHANGED <<lastMsg, lastRet>>
    /\ UNCHANGED otherThanMcp

Handle(msg) ==
    /\ \E verr \in PossibleCauses(msg, toolsMap), hout \in HandlerChoices(msg, toolsMap) :
          lastRet' = HandleMessage(msg, tools, toolsMap, verr, hout)
    /\ lastMsg' = msg
    /\ UNCHANGED <<tools, toolsMap, opErr>>
    /\ UNCHANGED otherThanMcp

NextMcp ==
    \/ \E tool \in ToolUniverse : AddTool(tool)
    \/ \E name \in ToolNames : RemoveTool(name)
    \/ \E msg \in McpMsgs : Handle(msg)

(***************************************************************************)
(* Properties of the in-process MCP server.                                *)
(***************************************************************************)
IsCall(msg) == IsStr(Get(msg, "method")) /\ msg["method"].v = "tools/call"

\* the message is a tools/call that names a tool (params is an object whose
\* name is a string)
NamesTool(msg) ==
    /\ IsCall(msg)
    /\ IsObj(Get(msg, "params"))
    /\ IsStr(Get(msg["params"].v, "name"))

CalledName(msg) == msg["params"].v["name"].v

\* the message is a tools/call of a registered tool with an arguments object
\* that validateInput rejects
FailsValidation(msg, tm) ==
    /\ NamesTool(msg)
    /\ CalledName(msg) \in DOMAIN tm
    /\ IsObj(Get(msg["params"].v, "arguments"))
    /\ validateInput(tm[CalledName(msg)].inputSchema, msg["params"].v["arguments"].v) # {}

IsErrorReply(ret, code, id) ==
    /\ ret.ok
    /\ "error" \in DOMAIN ret.resp
    /\ ret.resp.error.code = code
    /\ ret.resp.id = id

\* a step of HandleMessage: the registry and the last registry error stay, and
\* lastMsg' and lastRet' are the message handled and what the call returned
HandleStep == UNCHANGED <<tools, toolsMap, opErr>>

\* C8: a tools/call whose arguments fail validation against the tool's schema
\* is answered with JSON-RPC error code -32602 (invalid params).
C8_ValidationFailureIsInvalidParams ==
    [][(HandleStep /\ FailsValidation(lastMsg', toolsMap))
          => IsErrorReply(lastRet', ErrorCodeInvalidParams, Get(lastMsg', "id"))]_vars

\* C9: a request for an unknown method, or a tools/call naming a tool that is
\* not registered, is answered with an error response of code -32601 that
\* carries the request's id, and no tool handler is invoked.
C9_UnknownIsMethodNotFound ==
    [][(/\ HandleStep
        /\ \/ /\ IsStr(Get(lastMsg', "method"))
              /\ lastMsg'["method"].v \notin {"initialize", "tools/list", "tools/call"}
           \/ /\ NamesTool(lastMsg')
              /\ CalledName(lastMsg') \notin DOMAIN toolsMap)
          => /\ IsErrorReply(lastRet', ErrorCodeMethodNotFound, Get(lastMsg', "id"))
             /\ ~lastRet'.called]_vars

\* C9 witness: a tools/call naming an unregistered tool, without arguments,
\* has been answered with -32601 and the message's id.
C9_Witness ==
    /\ NamesTool(lastMsg)
    /\ CalledName(lastMsg) = "nonexistent"
    /\ "arguments" \notin DOMAIN lastMsg["params"].v
    /\ "id" \in DOMAIN lastMsg
    /\ IsErrorReply(lastRet, ErrorCodeMethodNotFound, MsgId)
    /\ ~lastRet.called

ListedNames == {tools[i].name : i \in 1..Len(tools)}

\* C10: the tool list contains each name at most once and contains exactly
\* the names of the name index.
C10_NamesUniqueAndIndexed ==
    /\ \A i, j \in 1..Len(tools) : tools[i].name = tools[j].name => i = j
    /\ ListedNames = DOMAIN toolsMap

\* the message is a tools/call that handleToolsCall passes on to Execute
ReachesExecute(msg, tm) ==
    /\ NamesTool(msg)
    /\ CalledName(msg) \in DOMAIN tm
    /\ IsObj(Get(msg["params"].v, "arguments"))

CallArgs(msg) == msg["params"].v["arguments"].v

SchemaAccepts(msg, tm) ==
    validateInput(tm[CalledName(msg)].inputSchema, CallArgs(msg)) = {}

ExecuteError(ret) ==
    IF ret.ok /\ "error" \in DOMAIN ret.resp /\ ret.resp.error.code = ErrorCodeInternalError
        THEN ret.resp.error.message.err
        ELSE ""

\* C13: a tool's handler is invoked only when the arguments have passed
\* schema validation and the tool's custom validator; when the schema rejects
\* them the call fails with the schema validation error (whatever the custom
\* validator would say), when only the custom validator rejects them it fails
\* with the custom validation error, and in both cases the handler is not
\* invoked.
C13_HandlerOnlyAfterValidation ==
    [][(HandleStep /\ ReachesExecute(lastMsg', toolsMap))
          => /\ lastRet'.called
                   => /\ SchemaAccepts(lastMsg', toolsMap)
                      /\ CustomValidatorOk(toolsMap[CalledName(lastMsg')], CallArgs(lastMsg'))
             /\ ~SchemaAccepts(lastMsg', toolsMap)
                   => /\ ~lastRet'.called
                      /\ ExecuteError(lastRet') = "input validation failed"
             /\ (/\ SchemaAccepts(lastMsg', toolsMap)
                 /\ ~CustomValidatorOk(toolsMap[CalledName(lastMsg')], CallArgs(lastMsg')))
                   => /\ ~lastRet'.called
                      /\ ExecuteError(lastRet') = "custom validation failed"]_vars

\* C13 witness: a call of echo whose arguments the schema accepts and the
\* custom validator rejects has failed without the handler being invoked.
C13_Witness ==
    /\ ReachesExecute(lastMsg, toolsMap)
    /\ CalledName(lastMsg) = "echo"
    /\ SchemaAccepts(lastMsg, toolsMap)
    /\ ~CustomValidatorOk(toolsMap["echo"], CallArgs(lastMsg))
    /\ ExecuteError(lastRet) = "custom validation failed"
    /\ ~lastRet.called

\* the value is a number: an integer or a fraction, whatever Go type holds it
IsNumber(x) == x.k \in {"float64", "int"}

\* twice the number a value stands for
Halves(x) == IF x.k = "int" THEN 2 * x.v ELSE x.v

SameJson(x, e) == IF IsNumber(x) /\ IsNumber(e) THEN Halves(x) = Halves(e) ELSE x = e

MatchesType(propType, x) ==
    CASE propType = "string"  -> x.k = "string"
      [] propType = "number"  -> IsNumber(x)
      [] propType = "integer" -> IsNumber(x) /\ Halves(x) % 2 = 0
      [] propType = "boolean" -> x.k = "bool"
      [] propType = "array"   -> x.k = "[]interface{}"
      [] propType = "object"  -> x.k = "map[string]interface{}"
      [] OTHER -> FALSE

\* the arguments an object schema admits: every required name is present,
\* every present key is declared, every value has its declared type (an
\* object value is admitted by the nested schema in turn) and is one of the
\* enum's values when the property has an enum
RECURSIVE Admits(_, _)
Admits(schema, input) ==
    /\ "required" \in DOMAIN schema
          => \A i \in 1..Len(schema.required) : schema.required[i] \in DOMAIN input
    /\ \A key \in DOMAIN input :
          /\ key \in DOMAIN schema.properties
          /\ LET prop == schema.properties[key]
             IN /\ MatchesType(prop.type, input[key])
                /\ (prop.type = "object" /\ "properties" \in DOMAIN prop)
                      => Admits(prop, input[key].v)
                /\ "enum" \in DOMAIN prop
                      => \E e \in prop.enum : SameJson(input[key], e)

\* the ToolResult a tools/call result object decodes to
DecodeToolResult(m) ==
    [Content |-> [i \in DOMAIN m.content.v |->
                     [Type |-> m.content.v[i].v.type.v, Text |-> m.content.v[i].v.text.v]],
     IsError |-> IF "isError" \in DOMAIN m THEN m.isError.v ELSE FALSE]

\* what a direct call of the tool named by the message returns when the
\* handler behaves as `hout`
DirectExecute(msg, tm, hout) ==
    Execute(tm[CalledName(msg)], CallArgs(msg), NoError, hout)

\* C15: for a tool and arguments accepted by validation, and a handler that
\* behaves the same in both calls, a direct Execute call and a tools/call
\* message yield the same ToolResult: the result object of the reply decodes
\* to the content blocks and the error flag Execute returned (and when the
\* handler fails, Execute returns an error and the reply is an error reply).
C15_DirectAndRpcAgree ==
    [][(/\ HandleStep
        /\ ReachesExecute(lastMsg', toolsMap)
        /\ SchemaAccepts(lastMsg', toolsMap)
        /\ CustomValidatorOk(toolsMap[CalledName(lastMsg')], CallArgs(lastMsg')))
          => \E hout \in HandlerOutcomes :
                /\ lastRet' = HandleMessage(lastMsg', tools, toolsMap, NoError, hout)
                /\ IF DirectExecute(lastMsg', toolsMap, hout).err = ""
                      THEN /\ "result" \in DOMAIN lastRet'.resp
                           /\ DecodeToolResult(lastRet'.resp.result)
                                 = DirectExecute(lastMsg', toolsMap, hout).res
                      ELSE "error" \in DOMAIN lastRet'.resp]_vars

\* C15 witness: a call of add with accepted arguments has been answered with
\* a result that carries the handler's content block and the error flag.
C15_Witness ==
    /\ ReachesExecute(lastMsg, toolsMap)
    /\ CalledName(lastMsg) = "add"
    /\ SchemaAccepts(lastMsg, toolsMap)
    /\ lastRet.called
    /\ "result" \in DOMAIN lastRet.resp
    /\ DecodeToolResult(lastRet.resp.result)
          = [Content |-> <<[Type |-> "text", Text |-> "failed"]>>, IsError |-> TRUE]

\* the message is a tools/call of the calculator's divide tool with divisor 0
DividesByZero(msg, tm) ==
    /\ ReachesExecute(msg, tm)
    /\ CalledName(msg) = "divide"
    /\ tm["divide"].handler = "divide"
    /\ SchemaAccepts(msg, tm)
    /\ CallArgs(msg)["b"] = JNum(0)

IsToolErrorResult(ret) ==
    /\ ret.ok
    /\ "result" \in DOMAIN ret.resp
    /\ "error" \notin DOMAIN ret.resp
    /\ "isError" \in DOMAIN ret.resp.result
    /\ ret.resp.result.isError = JBool(TRUE)

\* C16: division by zero in the sample divide tool, invoked through
\* tools/call, is answered with a JSON-RPC success response whose result has
\* isError true, not with a JSON-RPC error object.
C16_DivideByZeroIsToolError ==
    [][(HandleStep /\ DividesByZero(lastMsg', toolsMap)) => IsToolErrorResult(lastRet')]_vars

\* C16 witness: divide has been called with divisor 0 and answered with a
\* result carrying the division-by-zero text.
C16_Witness ==
    /\ DividesByZero(lastMsg, toolsMap)
    /\ IsToolErrorResult(lastRet)
    /\ DecodeToolResult(lastRet.resp.result)
          = NewErrorMcpToolResult("Division by zero is not allowed")

\* C14: validation accepts an arguments object exactly when every name in
\* the schema's required list is present, every present key is declared in
\* properties, and every value matches its declared type (string, number,
\* integer = numeric and integral, boolean, array, object) and its enum when
\* one is present.
C14_AcceptsIffAdmitted ==
    [][(HandleStep /\ ReachesExecute(lastMsg', toolsMap))
          => (ExecuteError(lastRet') # "input validation failed"
                <=> Admits(toolsMap[CalledName(lastMsg')].inputSchema,
                           CallArgs(lastMsg')))]_vars

\* the last message handled was a tools/call and its reply carries a result
IsCallResult ==
    /\ IsCall(lastMsg)
    /\ lastRet.ok
    /\ "result" \in DOMAIN lastRet.resp

\* C26: the result of a successful tools/call response always carries both
\* `content` and `isError`; for a result that is not an error, isError is
\* present with the value false.
C26_ResultCarriesIsError ==
    IsCallResult
        => /\ "content" \in DOMAIN lastRet.resp.result
           /\ "isError" \in DOMAIN lastRet.resp.result
           /\ lastRet.resp.result["isError"] \in {JBool(TRUE), JBool(FALSE)}

\* C36: HandleMessage answers a message whose method is missing or is not a
\* string with a JSON-RPC error response of code -32600 (invalid request) that
\* carries the message's id; the call does not fail without a response.
C36_InvalidRequestIsAnswered ==
    (lastMsg # NoMessage /\ ~IsStr(Get(lastMsg, "method")))
        => IsErrorReply(lastRet, ErrorCodeInvalidRequest, Get(lastMsg, "id"))

(***************************************************************************)
(* The control protocol engine.  Its code is not part of the sources at    *)
(* hand; the steps below follow the specification: Control Protocol        *)
(* Engine (outbound request, inbound request, inbound response),           *)
(* Termination, Cancellation and timeouts.                                 *)
(***************************************************************************)
ReqIds == 1..MaxReqs
InIds == 1..MaxPeerLines
\* a request id the session never generates
UnknownId == 0

NewControlEngine ==
    /\ tstate = "open"
    /\ nextId = 0
    /\ inflight = {}
    /\ wpc = [i \in ReqIds |-> "none"]
    /\ outcome = [i \in ReqIds |-> <<>>]
    /\ inbound = <<>>
    /\ nPeer = 0
    /\ nPeerReq = 0
    /\ hpc = [r \in InIds |-> "none"]
    /\ replies = <<>>
    /\ warnings = 0
    /\ pendingAtClose = {}

peerCtlVars == <<inbound, nPeer, nPeerReq>>
handlerVars == <<hpc, replies>>

\* the completion slots of ids are completed with res: each waiter resumes
Resolve(ids, res) ==
    /\ outcome' = [i \in ReqIds |-> IF i \in ids THEN Append(outcome[i], res) ELSE outcome[i]]
    /\ wpc' = [i \in ReqIds |-> IF i \in ids THEN "returned" ELSE wpc[i]]

\* send_control, steps 1 and 2: generate a fresh request id, allocate a
\* completion slot and install it in inflight before writing
SendControl ==
    /\ tstate = "open"
    /\ nextId < MaxReqs
    /\ nextId' = nextId + 1
    /\ inflight' = inflight \cup {nextId + 1}
    /\ wpc' = [wpc EXCEPT ![nextId + 1] = "installed"]
    /\ UNCHANGED <<tstate, outcome, peerCtlVars, handlerVars, warnings, pendingAtClose>>
    /\ UNCHANGED otherThanCtl

\* send_control, steps 3 and 4: write the control_request, then await the slot
SendControlWrite(id) ==
    /\ wpc[id] = "installed"
    /\ tstate = "open"
    /\ wpc' = [wpc EXCEPT ![id] = "awaiting"]
    /\ UNCHANGED <<tstate, nextId, inflight, outcome, peerCtlVars, handlerVars,
                   warnings, pendingAtClose>>
    /\ UNCHANGED otherThanCtl

\* send_control, step 4, on timeout: cancel the slot and return a Timeout error
SendControlTimeout(id) ==
    /\ wpc[id] = "awaiting"
    /\ id \in inflight
    /\ inflight' = inflight \ {id}
    /\ Resolve({id}, "Timeout")
    /\ UNCHANGED <<tstate, nextId, peerCtlVars, handlerVars, warnings, pendingAtClose>>
    /\ UNCHANGED otherThanCtl

\* cancelling send_control cancels the completion slot and resolves the
\* waiter with a Cancelled error
SendControlCancel(id) ==
    /\ wpc[id] \in {"installed", "awaiting"}
    /\ id \in inflight
    /\ inflight' = inflight \ {id}
    /\ Resolve({id}, "Cancelled")
    /\ UNCHANGED <<tstate, nextId, peerCtlVars, handlerVars, warnings, pendingAtClose>>
    /\ UNCHANGED otherThanCtl

\* the peer writes a control_response: to a request of the session, a second
\* time to one already answered, or with an id the session does not know
PeerWriteResponse(id, subtype) ==
    /\ tstate = "open"
    /\ nPeer < MaxPeerLines
    /\ nPeer' = nPeer + 1
    /\ inbound' = Append(inbound, [type |-> "control_response", id |-> id, subtype |-> subtype])
    /\ UNCHANGED <<tstate, nextId, inflight, wpc, outcome, nPeerReq, handlerVars,
                   warnings, pendingAtClose>>
    /\ UNCHANGED otherThanCtl

\* the peer writes a control_request with a request id of its own
PeerWriteRequest ==
    /\ tstate = "open"
    /\ nPeer < MaxPeerLines
    /\ nPeer' = nPeer + 1
    /\ nPeerReq' = nPeerReq + 1
    /\ inbound' = Append(inbound, [type |-> "control_request", id |-> nPeerReq + 1, subtype |-> "request"])
    /\ UNCHANGED <<tstate, nextId, inflight, wpc, outcome, handlerVars,
                   warnings, pendingAtClose>>
    /\ UNCHANGED otherThanCtl

\* an inbound response that completes the slot and leaves it in the table
ReadControlResponse_KeepSlot ==
    /\ tstate = "open"
    /\ inbound # <<>>
    /\ Head(inbound).type = "control_response"
    /\ inbound' = Tail(inbound)
    /\ IF Head(inbound).id \in inflight
          THEN /\ Resolve({Head(inbound).id}, Head(inbound).subtype)
               /\ UNCHANGED <<inflight, warnings>>
          ELSE /\ warnings' = warnings + 1
               /\ UNCHANGED <<inflight, wpc, outcome>>
    /\ UNCHANGED <<tstate, nextId, nPeer, nPeerReq, handlerVars, pendingAtClose>>
    /\ UNCHANGED otherThanCtl

\* Inbound response: look up its request_id; if present, deliver
\* success/error to the waiting slot and remove it; if absent, drop silently
\* and record a protocol warning
ReadControlResponse ==
    /\ tstate = "open"
    /\ inbound # <<>>
    /\ Head(inbound).type = "control_response"
    /\ inbound' = Tail(inbound)
    /\ IF Head(inbound).id \in inflight
          THEN /\ Resolve({Head(inbound).id}, Head(inbound).subtype)
               /\ inflight' = inflight \ {Head(inbound).id}
               /\ UNCHANGED warnings
          ELSE /\ warnings' = warnings + 1
               /\ UNCHANGED <<inflight, wpc, outcome>>
    /\ UNCHANGED <<tstate, nextId, nPeer, nPeerReq, handlerVars, pendingAtClose>>
    /\ UNCHANGED otherThanCtl

\* Inbound request: look up the handler and run it on its own task
ReadControlRequest ==
    /\ tstate = "open"
    /\ inbound # <<>>
    /\ Head(inbound).type = "control_request"
    /\ inbound' = Tail(inbound)
    /\ hpc' = [hpc EXCEPT ![Head(inbound).id] = "running"]
    /\ UNCHANGED <<tstate, nextId, inflight, wpc, outcome, nPeer, nPeerReq, replies,
                   warnings, pendingAtClose>>
    /\ UNCHANGED otherThanCtl

\* a failing handler whose error is not turned into a reply
HandlerReturn_ErrorDropped(r, ok) ==
    /\ hpc[r] = "running"
    /\ hpc' = [hpc EXCEPT ![r] = IF ok THEN "succeeded" ELSE "failed"]
    /\ IF tstate = "open" /\ ok
          THEN replies' = Append(replies, [id |-> r, subtype |-> "success"])
          ELSE UNCHANGED replies
    /\ UNCHANGED <<tstate, nextId, inflight, wpc, outcome, peerCtlVars,
                   warnings, pendingAtClose>>
    /\ UNCHANGED otherThanCtl

\* the handler returns: on success reply {subtype: "success"}, on failure
\* reply {subtype: "error"}; a closed transport takes no line
HandlerReturn(r, ok) ==
    /\ hpc[r] = "running"
    /\ hpc' = [hpc EXCEPT ![r] = IF ok THEN "succeeded" ELSE "failed"]
    /\ IF tstate = "open"
          THEN replies' = Append(replies, [id |-> r, subtype |-> IF ok THEN "success" ELSE "error"])
          ELSE UNCHANGED replies
    /\ UNCHANGED <<tstate, nextId, inflight, wpc, outcome, peerCtlVars,
                   warnings, pendingAtClose>>
    /\ UNCHANGED otherThanCtl

\* a close that leaves the completion slots alone
TransportClose_NoFail ==
    /\ tstate = "open"
    /\ tstate' = "closed"
    /\ pendingAtClose' = inflight
    /\ UNCHANGED <<inflight, wpc, outcome>>
    /\ UNCHANGED <<nextId, peerCtlVars, handlerVars, warnings>>
    /\ UNCHANGED otherThanCtl

\* close: pending control requests are failed with ConnectionClosed
TransportClose ==
    /\ tstate = "open"
    /\ tstate' = "closed"
    /\ pendingAtClose' = inflight
    /\ inflight' = {}
    /\ Resolve(inflight, "ConnectionClosed")
    /\ UNCHANGED <<nextId, peerCtlVars, handlerVars, warnings>>
    /\ UNCHANGED otherThanCtl

NextCtl ==
    \/ SendControl
    \/ \E id \in ReqIds : SendControlWrite(id)
    \/ \E id \in ReqIds : SendControlTimeout(id)
    \/ \E id \in ReqIds : SendControlCancel(id)
    \/ \E id \in ReqIds \cup {UnknownId} : \E st \in {"success", "error"} : PeerWriteResponse(id, st)
    \/ PeerWriteRequest
    \/ ReadControlResponse
    \/ ReadControlRequest
    \/ \E r \in InIds : \E ok \in BOOLEAN : HandlerReturn(r, ok)
    \/ TransportClose

(***************************************************************************)
(* Properties of the control protocol engine.                              *)
(***************************************************************************)
\* the request ids for which send_control was called
Issued == 1..nextId

\* the waiter of request id is blocked on its slot
Blocked(id) == wpc[id] \in {"installed", "awaiting"}

ResolvedOnce ==
    /\ \A id \in ReqIds : Len(outcome[id]) <= 1
    /\ tstate = "closed" => \A id \in Issued : Len(outcome[id]) = 1

ResolvedBy(kinds) ==
    \A id \in ReqIds : \A i \in 1..Len(outcome[id]) : outcome[id][i] \in kinds

\* C5 as stated: every outgoing control request is resolved exactly once, by
\* a matching control_response or by transport termination; none is resolved
\* twice and none is unresolved once the transport has terminated.
C5_ResolvedOnceByResponseOrClose ==
    /\ ResolvedOnce
    /\ ResolvedBy({"success", "error", "ConnectionClosed"})

\* C5, amended: every outgoing control request is resolved exactly once, by a
\* matching control_response, by transport termination, by its timeout or by
\* its cancellation; none is resolved twice and none is unresolved once the
\* transport has terminated.
C5_ResolvedOnce ==
    /\ ResolvedOnce
    /\ ResolvedBy({"success", "error", "ConnectionClosed", "Timeout", "Cancelled"})
    /\ \A id \in ReqIds : (id \in inflight) <=> (Blocked(id) /\ outcome[id] = <<>>)

\* C5 witness: one request was resolved by its response, a further response
\* was dropped with a warning, and another request was resolved by the close.
C5_Witness ==
    /\ warnings >= 1
    /\ \E a, b \in Issued :
          /\ outcome[a] \in {<<"success">>, <<"error">>}
          /\ outcome[b] = <<"ConnectionClosed">>

ReplyCount(r) == Cardinality({i \in 1..Len(replies) : replies[i].id = r})

\* C6 as stated: for every inbound control_request, exactly one
\* control_response with its id is written before the transport is closed.
C6_ExactlyOneReplyBeforeClose ==
    tstate = "closed" => \A r \in InIds : hpc[r] # "none" => ReplyCount(r) = 1

\* C6, amended: for every inbound control_request at most one
\* control_response with its id is written, and exactly one once its handler
\* has returned while the transport is open; the reply of a handler that
\* failed is the error response.
C6_AtMostOneReply ==
    /\ \A r \in InIds : ReplyCount(r) <= 1
    /\ \A r \in InIds : ReplyCount(r) = 1 => hpc[r] \in {"succeeded", "failed"}
    /\ tstate = "open" => \A r \in InIds : hpc[r] \in {"succeeded", "failed"} => ReplyCount(r) = 1
    /\ \A i \in 1..Len(replies) :
          replies[i].subtype = IF hpc[replies[i].id] = "failed" THEN "error" ELSE "success"

\* C6 witness: a handler failed and its error response was written; another
\* handler succeeded and its success response was written.
C6_Witness ==
    \E r, q \in InIds :
        /\ hpc[r] = "failed" /\ ReplyCount(r) = 1
        /\ hpc[q] = "succeeded" /\ ReplyCount(q) = 1

\* C7: when the session is closed, every waiter pending at that moment is
\* resolved with ConnectionClosed, and no waiter is blocked after the close.
C7_CloseResolvesPending ==
    /\ \A id \in pendingAtClose : outcome[id] = <<"ConnectionClosed">>
    /\ tstate = "closed" => \A id \in ReqIds : ~Blocked(id)

\* C7 witness: the session was closed with two requests pending.
C7_Witness ==
    /\ tstate = "closed"
    /\ Cardinality(pendingAtClose) >= 2

(***************************************************************************)
(* The tool registry of SdkMCPServer as goroutines share it: s.mu          *)
(* (sync.RWMutex), the slice s.tools with the array under it, and the map  *)
(* s.toolsMap.                                                             *)
(***************************************************************************)
Goroutines == 1..NumGoroutines

\* the zero value of an array element
NilTool == [name |-> "", description |-> "", inputSchema |-> [type |-> ""], validator |-> "none"]

\* a server as NewSdkMCPServer leaves it: s.tools is the caller's slice
NewRegistry(ts) ==
    /\ rwWriter = 0
    /\ rwReaders = {}
    /\ gpc = [g \in Goroutines |-> "idle"]
    /\ garg = [g \in Goroutines |-> ""]
    /\ regArr = NewSdkMCPServer(ts).tools
    /\ regLen = Len(ts)
    /\ regMap = NewSdkMCPServer(ts).toolsMap
    /\ snapTaken = FALSE
    /\ snapShared = FALSE
    /\ snapArr = <<>>
    /\ snapLen = 0
    /\ snapSeen = <<>>

snapVars == <<snapTaken, snapShared, snapArr, snapLen, snapSeen>>
sliceVars == <<regArr, regLen, regMap>>

\* the elements of a slice of length n over array a
SliceOf(a, n) == SubSeq(a, 1, n)

\* the capacities append may give the new array when the old one is full
GrowCaps(n) == {n + 1, 2 * n} \ {0}

\* append(s, x) on a slice of length n over array a
AppendInPlace(a, n, x) == [a EXCEPT ![n + 1] = x]

AppendGrown(a, n, x, newcap) ==
    [j \in 1..newcap |-> IF j <= n THEN a[j] ELSE IF j = n + 1 THEN x ELSE NilTool]

\* append(s[:i], s[i+1:]...) on a slice of length n over array a: the
\* elements after i move down one place in the same array
RemoveInPlace(a, n, i) ==
    [j \in 1..Len(a) |-> IF j >= i /\ j < n THEN a[j + 1] ELSE a[j]]

\* s.mu.Lock()
WLock(g, op, arg) ==
    /\ gpc[g] = "idle"
    /\ rwWriter = 0
    /\ rwReaders = {}
    /\ rwWriter' = g
    /\ gpc' = [gpc EXCEPT ![g] = op]
    /\ garg' = [garg EXCEPT ![g] = arg]
    /\ UNCHANGED <<rwReaders, sliceVars, snapVars>>
    /\ UNCHANGED otherThanReg

\* s.mu.RLock()
RLock(g, op) ==
    /\ gpc[g] = "idle"
    /\ rwWriter = 0
    /\ rwReaders' = rwReaders \cup {g}
    /\ gpc' = [gpc EXCEPT ![g] = op]
    /\ UNCHANGED <<rwWriter, garg, sliceVars, snapVars>>
    /\ UNCHANGED otherThanReg

AddToolLock(g, tool) == WLock(g, "AddTool", tool)

\* the body of AddTool, then the deferred s.mu.Unlock()
AddToolUnlock(g) ==
    /\ gpc[g] = "AddTool"
    /\ IF garg[g].name \in DOMAIN regMap
          THEN UNCHANGED <<sliceVars, snapVars>>
          ELSE /\ regMap' = [n \in DOMAIN regMap \cup {garg[g].name} |->
                                IF n = garg[g].name THEN garg[g] ELSE regMap[n]]
               /\ regLen' = regLen + 1
               /\ IF regLen < Len(regArr)
                     THEN /\ regArr' = AppendInPlace(regArr, regLen, garg[g])
                          /\ UNCHANGED <<snapShared, snapArr>>
                     ELSE /\ \E newcap \in GrowCaps(regLen) :
                                regArr' = AppendGrown(regArr, regLen, garg[g], newcap)
                          /\ snapShared' = FALSE
                          /\ snapArr' = IF snapTaken /\ snapShared THEN regArr ELSE snapArr
               /\ UNCHANGED <<snapTaken, snapLen, snapSeen>>
    /\ rwWriter' = 0
    /\ gpc' = [gpc EXCEPT ![g] = "idle"]
    /\ garg' = [garg EXCEPT ![g] = ""]
    /\ UNCHANGED rwReaders
    /\ UNCHANGED otherThanReg

RemoveToolLock(g, name) == WLock(g, "RemoveTool", name)

\* the body of RemoveTool, then the deferred s.mu.Unlock()
RemoveToolUnlock(g) ==
    /\ gpc[g] = "RemoveTool"
    /\ IF garg[g] \notin DOMAIN regMap
          THEN UNCHANGED sliceVars
          ELSE /\ regMap' = [n \in DOMAIN regMap \ {garg[g]} |-> regMap[n]]
               /\ IF FirstNamed(SliceOf(regArr, regLen), garg[g]) = 0
                     THEN UNCHANGED <<regArr, regLen>>
                     ELSE /\ regArr' = RemoveInPlace(regArr, regLen,
                                           FirstNamed(SliceOf(regArr, regLen), garg[g]))
                          /\ regLen' = regLen - 1
    /\ rwWriter' = 0
    /\ gpc' = [gpc EXCEPT ![g] = "idle"]
    /\ garg' = [garg EXCEPT ![g] = ""]
    /\ UNCHANGED <<rwReaders, snapVars>>
    /\ UNCHANGED otherThanReg

\* Tools(): s.mu.RLock()
ToolsRLock(g) == RLock(g, "Tools")

\* Tools(): return s.tools, then the deferred s.mu.RUnlock(); the caller now
\* holds a slice over the array under s.tools
ToolsRUnlock(g) ==
    /\ gpc[g] = "Tools"
    /\ rwReaders' = rwReaders \ {g}
    /\ gpc' = [gpc EXCEPT ![g] = "idle"]
    /\ snapTaken' = TRUE
    /\ snapShared' = TRUE
    /\ snapArr' = <<>>
    /\ snapLen' = regLen
    /\ snapSeen' = SliceOf(regArr, regLen)
    /\ UNCHANGED <<rwWriter, garg, sliceVars>>
    /\ UNCHANGED otherThanReg

\* handleToolsList: tools := s.Tools(), the RLock inside it
ToolsListRLock(g) == RLock(g, "tools/list:Tools")

\* handleToolsList: s.Tools() returns, the lock is released
ToolsListRUnlock(g) ==
    /\ gpc[g] = "tools/list:Tools"
    /\ rwReaders' = rwReaders \ {g}
    /\ gpc' = [gpc EXCEPT ![g] = "tools/list:range"]
    /\ UNCHANGED <<rwWriter, garg, sliceVars, snapVars>>
    /\ UNCHANGED otherThanReg

\* handleToolsList: for i, tool := range tools, reading the array
ToolsListRange(g) ==
    /\ gpc[g] = "tools/list:range"
    /\ gpc' = [gpc EXCEPT ![g] = "idle"]
    /\ UNCHANGED <<rwWriter, rwReaders, garg, sliceVars, snapVars>>
    /\ UNCHANGED otherThanReg

\* handleToolsCall: params and name are read from the message
ToolsCallName(g, name) ==
    /\ gpc[g] = "idle"
    /\ gpc' = [gpc EXCEPT ![g] = "tools/call:lookup"]
    /\ garg' = [garg EXCEPT ![g] = name]
    /\ UNCHANGED <<rwWriter, rwReaders, sliceVars, snapVars>>
    /\ UNCHANGED otherThanReg

\* handleToolsCall: tool, exists := s.toolsMap[name]
ToolsCallLookup(g) ==
    /\ gpc[g] = "tools/call:lookup"
    /\ gpc' = [gpc EXCEPT ![g] = "idle"]
    /\ garg' = [garg EXCEPT ![g] = ""]
    /\ UNCHANGED <<rwWriter, rwReaders, sliceVars, snapVars>>
    /\ UNCHANGED otherThanReg

\* the tools and names the goroutines sharing a registry work with
RegTools == {t \in ToolUniverse : t.name \in {"add", "echo"}}
RegNames == {"add", "echo", "nonexistent"}

NextReg ==
    \/ \E g \in Goroutines : \E tool \in RegTools : AddToolLock(g, tool)
    \/ \E g \in Goroutines : AddToolUnlock(g)
    \/ \E g \in Goroutines : \E name \in RegNames : RemoveToolLock(g, name)
    \/ \E g \in Goroutines : RemoveToolUnlock(g)
    \/ \E g \in Goroutines : ToolsRLock(g)
    \/ \E g \in Goroutines : ToolsRUnlock(g)
    \/ \E g \in Goroutines : ToolsListRLock(g)
    \/ \E g \in Goroutines : ToolsListRUnlock(g)
    \/ \E g \in Goroutines : ToolsListRange(g)
    \/ \E g \in Goroutines : \E name \in RegNames : ToolsCallName(g, name)
    \/ \E g \in Goroutines : ToolsCallLookup(g)

(***************************************************************************)
(* Properties of the shared registry.                                      *)
(***************************************************************************)
\* what the slice Tools() returned shows now
SnapNow == SliceOf(IF snapShared THEN regArr ELSE snapArr, snapLen)

\* C11: a tool list obtained from Tools() is not changed by an AddTool or
\* RemoveTool performed afterwards.
C11_ToolsIsSnapshot ==
    snapTaken => SnapNow = snapSeen

\* the positions from which a goroutine's next step reads s.tools, the array
\* under it, or s.toolsMap
ReadPositions == {"Tools", "tools/list:Tools", "tools/list:range", "tools/call:lookup"}

\* C12: every read of the registry is mutually exclusive with a concurrent
\* AddTool / RemoveTool: no read step is taken while a goroutine is inside
\* the critical section of a write.
C12_ReadsExcludeWrites ==
    [][\A g \in Goroutines :
          (gpc[g] \in ReadPositions /\ gpc'[g] # gpc[g]) => rwWriter = 0]_vars

(***************************************************************************)
(* Tool-name routing (MCPServerTransport.RouteToolUse).  A string is the   *)
(* sequence of its characters.                                             *)
(***************************************************************************)
MaxNameLen == 4

NoCall == [fn |-> "none"]

\* the function fn is about to be called with arg
Calling(fn, arg) == callArg = [fn |-> fn, arg |-> arg] /\ callRet = NoCall

\* the call of fn returns ret
Returns(fn, ret) ==
    /\ callArg.fn = fn
    /\ callRet = NoCall
    /\ callRet' = [fn |-> fn, ret |-> ret]
    /\ UNCHANGED callArg
    /\ UNCHANGED otherThanFn

NothingCalled == callArg = NoCall /\ callRet = NoCall

RECURSIVE splitLoop(_, _, _, _)
\* the loop of splitToolName from (1-based) position i on
splitLoop(toolName, i, current, parts) ==
    IF i > Len(toolName)
        THEN IF current # <<>> THEN Append(parts, current) ELSE parts
    ELSE IF i < Len(toolName) /\ toolName[i] = "_" /\ toolName[i + 1] = "_"
        THEN splitLoop(toolName, i + 2, <<>>, Append(parts, current))
    ELSE splitLoop(toolName, i + 1, Append(current, toolName[i]), parts)

splitToolName(toolName) == splitLoop(toolName, 1, <<>>, <<>>)

Mcp == <<"m", "c", "p">>

RouteToolUse(toolName) ==
    LET parts == splitToolName(toolName)
    IN IF Len(parts) = 3 /\ parts[1] = Mcp
           THEN [isMcp |-> TRUE, serverName |-> parts[2], toolName |-> parts[3]]
           ELSE [isMcp |-> FALSE, serverName |-> <<>>, toolName |-> toolName]

RECURSIVE NamesUpTo(_, _)
\* the non-empty strings of at most n characters
NamesUpTo(chars, n) ==
    IF n = 0 THEN {}
    ELSE {<<c>> : c \in chars}
         \cup NamesUpTo(chars, n - 1)
         \cup {Append(w, c) : w \in NamesUpTo(chars, n - 1), c \in chars}

RoutedServers == {<<"s">>, <<"s", "v">>}
RoutedTools == NamesUpTo({"a", "b", "_"}, MaxNameLen)

\* "mcp__" + server + "__" + tool
McpToolName(server, tool) == Mcp \o <<"_", "_">> \o server \o <<"_", "_">> \o tool

Route == Returns("RouteToolUse", RouteToolUse(callArg.arg))

RoutedNames ==
    {McpToolName(s, t) : s \in RoutedServers, t \in RoutedTools} \cup RoutedTools

NextRoute == Route

\* C17: tool-name routing inverts the mcp__<server>__<tool> naming: for every
\* server name s and tool name t, a t that itself contains "__" included, the
\* route of "mcp__" + s + "__" + t is (mcp, s, t), and the route of a plain
\* name t is (not mcp, "", t).
C17_RouteInvertsNaming ==
    callRet.fn = "RouteToolUse"
        => /\ \A s \in RoutedServers, t \in RoutedTools :
                 callArg.arg = McpToolName(s, t)
                     => callRet.ret = [isMcp |-> TRUE, serverName |-> s, toolName |-> t]
           /\ \A t \in RoutedTools :
                 callArg.arg = t
                     => callRet.ret = [isMcp |-> FALSE, serverName |-> <<>>, toolName |-> t]

(***************************************************************************)
(* MCPServerTransport and the temporary MCP config file.                   *)
(***************************************************************************)
MaxFiles == 2

\* the kinds of server configuration options.McpServers can hold: an
\* in-process *ToolServerConfig of type "sdk" and the three external kinds
ServerKinds == {"sdk", "stdio", "sse", "http"}

\* options.McpServers: nil, a string (a path), or a map with one server of
\* each of the kinds named
NoServers == [form |-> "nil", kinds |-> {}]
McpServersValues ==
    {NoServers, [form |-> "string", kinds |-> {}]}
    \cup {[form |-> "map", kinds |-> K] : K \in SUBSET ServerKinds}

\* no transport has been made and no command built
NoTransport(servers) ==
    /\ mcpServers = servers
    /\ tstatus = "idle"
    /\ tmpFiles = {}
    /\ nCreated = 0
    /\ cmdFile = 0
    /\ mcpConfigFile = 0

\* generateMcpConfigFile reaches os.CreateTemp: a map with an external server
WritesConfig(servers) == servers.form = "map" /\ servers.kinds \ {"sdk"} # {}

\* BuildMcpCommand; `io` says how os.CreateTemp and the encoder fare
BuildMcpCommand(io) ==
    /\ tstatus \in {"idle", "closed"}
    /\ IF ~WritesConfig(mcpServers)
          THEN \* no file: the command has no flag, or the call fails on a
               \* value that is not a map
               /\ io = "ok"
               /\ cmdFile' = 0
               /\ tstatus' = IF mcpServers.form = "string" THEN tstatus ELSE "built"
               /\ UNCHANGED <<tmpFiles, nCreated>>
          ELSE /\ nCreated < MaxFiles
               /\ CASE io = "createFails" ->
                         /\ UNCHANGED <<tmpFiles, nCreated, tstatus>>
                         /\ cmdFile' = 0
                    [] io = "encodeFails" ->
                         \* the file is made and removed again
                         /\ nCreated' = nCreated + 1
                         /\ UNCHANGED <<tmpFiles, tstatus>>
                         /\ cmdFile' = 0
                    [] OTHER ->
                         /\ nCreated' = nCreated + 1
                         /\ tmpFiles' = tmpFiles \cup {nCreated + 1}
                         /\ cmdFile' = nCreated + 1
                         /\ tstatus' = "built"
    /\ UNCHANGED <<mcpServers, mcpConfigFile>>
    /\ UNCHANGED otherThanTmp

NewMCPServerTransport ==
    /\ tstatus = "built"
    /\ tstatus' = "new"
    /\ mcpConfigFile' = 0
    /\ UNCHANGED <<mcpServers, tmpFiles, nCreated, cmdFile>>
    /\ UNCHANGED otherThanTmp

TransportConnect(ok) ==
    /\ tstatus = "new"
    /\ tstatus' = IF ok THEN "connected" ELSE "new"
    /\ UNCHANGED <<mcpServers, tmpFiles, nCreated, cmdFile, mcpConfigFile>>
    /\ UNCHANGED otherThanTmp

\* MCPServerTransport.Close
MCPServerTransportClose ==
    /\ tstatus \in {"new", "connected"}
    /\ IF mcpConfigFile # 0
          THEN tmpFiles' = tmpFiles \ {mcpConfigFile}
          ELSE UNCHANGED tmpFiles
    /\ mcpConfigFile' = 0
    /\ tstatus' = "closed"
    /\ UNCHANGED <<mcpServers, nCreated, cmdFile>>
    /\ UNCHANGED otherThanTmp

NextTmp ==
    \/ \E io \in {"ok", "createFails", "encodeFails"} : BuildMcpCommand(io)
    \/ NewMCPServerTransport
    \/ \E ok \in BOOLEAN : TransportConnect(ok)
    \/ MCPServerTransportClose

\* C18: the temporary MCP config file is deleted on session close: a file
\* created to back the --mcp-servers flag no longer exists once the
\* transport's Close has returned.
C18_TempFileDeletedOnClose ==
    tstatus = "closed" => cmdFile \notin tmpFiles

(***************************************************************************)
(* Parsing a line of the peer: UnmarshalMessage, the UnmarshalJSON methods *)
(* of UserMessage and AssistantMessage, UnmarshalContentBlock.  A line is  *)
(* the JSON object it holds, a function from its keys to JSON values.      *)
(***************************************************************************)
MaxBlocks == 2

NoErr == [kind |-> "nil"]

\* fmt.Errorf and the errors of encoding/json
PlainError(message) == [kind |-> "error", message |-> message]

NewMessageParseErrorWithType(message, type) ==
    [kind |-> "MessageParseError", message |-> message, type |-> type]

NewCLIJSONDecodeErrorWithCause(message, cause) ==
    [kind |-> "CLIJSONDecodeError", message |-> message, cause |-> cause]

Nil == "<nil>"
IsArr(x) == x.k = "[]interface{}"
IsNull(x) == x.k = "nil"

\* the Type a struct {Type string `json:"type"`} takes from an object
TypeOf(obj) == IF IsStr(Get(obj, "type")) THEN obj["type"].v ELSE ""

KnownBlockTypes == {"text", "thinking", "tool_use", "tool_result"}

NoBlock == [Type |-> ""]

UnmarshalContentBlock(raw) ==
    IF ~IsObj(raw) \/ ~(IsStr(Get(raw.v, "type")) \/ IsNull(Get(raw.v, "type")))
        THEN [err |-> NewCLIJSONDecodeErrorWithCause(
                          "failed to determine content block type", PlainError("json")),
              block |-> NoBlock]
    ELSE IF TypeOf(raw.v) \in KnownBlockTypes
        THEN [err |-> NoErr, block |-> [Type |-> TypeOf(raw.v)]]
    ELSE [err |-> NewMessageParseErrorWithType("unknown content block type", TypeOf(raw.v)),
          block |-> NoBlock]

RECURSIVE UnmarshalBlocks(_)
\* for i, rawBlock := range ... { block, err := UnmarshalContentBlock(rawBlock) ... }
UnmarshalBlocks(raws) ==
    IF raws = <<>> THEN [err |-> NoErr, blocks |-> <<>>]
    ELSE IF UnmarshalContentBlock(Head(raws)).err # NoErr
        THEN [err |-> UnmarshalContentBlock(Head(raws)).err, blocks |-> <<>>]
    ELSE IF UnmarshalBlocks(Tail(raws)).err # NoErr
        THEN UnmarshalBlocks(Tail(raws))
    ELSE [err |-> NoErr,
          blocks |-> <<UnmarshalContentBlock(Head(raws)).block>>
                         \o UnmarshalBlocks(Tail(raws)).blocks]

\* json.Unmarshal(raw, &s) for a string s succeeds on a string and on null
StringOk(raw) == IsStr(raw) \/ IsNull(raw)
StringOf(raw) == IF IsStr(raw) THEN raw.v ELSE ""

\* a *string field of the message struct, filled from the flat form
FlatPtr(data, key) == IF IsStr(Get(data, key)) THEN data[key].v ELSE Nil

\* json.Unmarshal(data, &aux) succeeds
AuxOk(data) ==
    /\ \A key \in {"parent_tool_use_id", "uuid", "model", "error"} : StringOk(Get(data, key))
    /\ IsObj(Get(data, "message")) \/ IsNull(Get(data, "message"))

\* aux.Message
Nested(data) == IF IsObj(Get(data, "message")) THEN data["message"].v ELSE EmptyMap

\* a field the nested form overrides when it holds a string
NestedOrFlat(data, key) ==
    IF key \in DOMAIN Nested(data) /\ StringOk(Nested(data)[key])
        THEN StringOf(Nested(data)[key])
        ELSE FlatPtr(data, key)

NoParsed ==
    [Type |-> "", Content |-> [kind |-> "none", str |-> "", blocks |-> <<>>], Model |-> "",
     ParentToolUseID |-> Nil, UUID |-> Nil, Error |-> Nil]

Failed(err) == [err |-> err, msg |-> NoParsed]

UserMessageUnmarshalJSON(data) ==
    LET contentRaw == IF "content" \in DOMAIN Nested(data) THEN Nested(data)["content"]
                      ELSE Get(data, "content")
    IN IF ~AuxOk(data) THEN Failed(PlainError("json"))
       ELSE IF "content" \notin DOMAIN Nested(data) \cup DOMAIN data
           THEN Failed(PlainError("missing content field"))
       ELSE IF StringOk(contentRaw)
           THEN [err |-> NoErr,
                 msg |-> [Type |-> "user", Model |-> "", Error |-> Nil,
                          ParentToolUseID |-> NestedOrFlat(data, "parent_tool_use_id"),
                          UUID |-> NestedOrFlat(data, "uuid"),
                          Content |-> [kind |-> "string", str |-> StringOf(contentRaw),
                                       blocks |-> <<>>]]]
       ELSE IF IsArr(contentRaw)
           THEN IF UnmarshalBlocks(contentRaw.v).err # NoErr
                    THEN Failed(UnmarshalBlocks(contentRaw.v).err)
                    ELSE [err |-> NoErr,
                          msg |-> [Type |-> "user", Model |-> "", Error |-> Nil,
                                   ParentToolUseID |-> NestedOrFlat(data, "parent_tool_use_id"),
                                   UUID |-> NestedOrFlat(data, "uuid"),
                                   Content |-> [kind |-> "blocks", str |-> "",
                                                blocks |-> UnmarshalBlocks(contentRaw.v).blocks]]]
       ELSE Failed(PlainError("content must be string or array of content blocks"))

AssistantMessageUnmarshalJSON(data) ==
    LET contentBlocks ==
            IF "content" \in DOMAIN Nested(data) /\ IsArr(Nested(data)["content"])
                THEN Nested(data)["content"].v
            ELSE IF IsArr(Get(data, "content")) THEN data["content"].v
            ELSE <<>>
    IN IF ~AuxOk(data) \/ ~(IsArr(Get(data, "content")) \/ IsNull(Get(data, "content")))
           THEN Failed(PlainError("json"))
       ELSE IF UnmarshalBlocks(contentBlocks).err # NoErr
           THEN Failed(UnmarshalBlocks(contentBlocks).err)
       ELSE [err |-> NoErr,
             msg |-> [Type |-> "assistant",
                      Content |-> [kind |-> "blocks", str |-> "",
                                   blocks |-> UnmarshalBlocks(contentBlocks).blocks],
                      Model |-> IF "model" \in DOMAIN Nested(data)
                                     /\ StringOk(Nested(data)["model"])
                                    THEN StringOf(Nested(data)["model"])
                                    ELSE StringOf(Get(data, "model")),
                      ParentToolUseID |-> FlatPtr(data, "parent_tool_use_id"),
                      UUID |-> Nil,
                      Error |-> IF "error" \in DOMAIN Nested(data)
                                     /\ StringOk(Nested(data)["error"])
                                     /\ StringOf(Nested(data)["error"]) # ""
                                    THEN StringOf(Nested(data)["error"])
                                    ELSE FlatPtr(data, "error")]]

UnmarshalMessage(data) ==
    IF ~(IsStr(Get(data, "type")) \/ IsNull(Get(data, "type")))
        THEN Failed(NewCLIJSONDecodeErrorWithCause("failed to determine message type",
                                                   PlainError("json")))
    ELSE CASE TypeOf(data) = "user" ->
                IF UserMessageUnmarshalJSON(data).err # NoErr
                    THEN Failed(NewCLIJSONDecodeErrorWithCause(
                                    "failed to unmarshal user message",
                                    UserMessageUnmarshalJSON(data).err))
                    ELSE UserMessageUnmarshalJSON(data)
           [] TypeOf(data) = "assistant" ->
                IF AssistantMessageUnmarshalJSON(data).err # NoErr
                    THEN Failed(NewCLIJSONDecodeErrorWithCause(
                                    "failed to unmarshal assistant message",
                                    AssistantMessageUnmarshalJSON(data).err))
                    ELSE AssistantMessageUnmarshalJSON(data)
           [] TypeOf(data) \in {"system", "control_request", "control_response", "result",
                                "stream_event"} ->
                [err |-> NoErr, msg |-> [NoParsed EXCEPT !.Type = TypeOf(data)]]
           [] OTHER ->
                Failed(NewMessageParseErrorWithType("unknown message type", TypeOf(data)))

(***************************************************************************)
(* The lines the parser is given.                                          *)
(***************************************************************************)
BlockTypes == KnownBlockTypes \cup {"video"}

RawBlock(t) == JObj([type |-> JStr(t)])

RawContent(types) == JArr([i \in DOMAIN types |-> RawBlock(types[i])])

\* user and assistant lines in the flat and in the nested form, with up to
\* MaxBlocks content blocks
BlockLines ==
    {[type |-> JStr(ty), content |-> RawContent(ts)] :
        ty \in {"user", "assistant"}, ts \in SeqsUpTo(BlockTypes, MaxBlocks)}
    \cup {[type |-> JStr(ty), message |-> JObj([content |-> RawContent(ts)])] :
            ty \in {"user", "assistant"}, ts \in SeqsUpTo(BlockTypes, MaxBlocks)}

MessageFields == {"content", "model", "parent_tool_use_id", "uuid", "error"}

\* the value a form gives a field: the form's name, or one block that tells
\* the forms apart
FieldValue(field, form) ==
    IF field = "content"
        THEN RawContent(IF form = "flat" THEN <<"text">> ELSE <<"thinking">>)
        ELSE JStr(form)

\* a line of type ty that carries the fields `flat` at the top level and the
\* fields `nested` inside `message`
BothForms(ty, flat, nested) ==
    [key \in flat \cup {"type", "message"} |->
        IF key = "type" THEN JStr(ty)
        ELSE IF key = "message" THEN JObj([f \in nested |-> FieldValue(f, "nested")])
        ELSE FieldValue(key, "flat")]

ParsedLines ==
    BlockLines
    \cup {BothForms(ty, flat, nested) :
            ty \in {"user", "assistant"}, flat \in SUBSET MessageFields,
            nested \in SUBSET MessageFields}
    \cup {[type |-> JStr(ty)] : ty \in {"system", "result", "video"}}

Parse == Returns("UnmarshalMessage", UnmarshalMessage(callArg.arg))

NextParse == Parse

\* the content the parser reads: the nested one when the line has one
ContentRead(line) ==
    IF "content" \in DOMAIN Nested(line) THEN Nested(line)["content"]
    ELSE Get(line, "content")

\* the types of the line's content blocks that are not known
UnknownTypes(line) ==
    IF IsArr(ContentRead(line))
        THEN {ContentRead(line).v[i].v["type"].v : i \in DOMAIN ContentRead(line).v}
                 \ KnownBlockTypes
        ELSE {}

\* C19: unknown block types are a hard parse error: parsing a user or
\* assistant line that contains a content block whose type is not text,
\* thinking, tool_use or tool_result fails, and the error surfaced for the
\* line is of kind ParseError and carries the offending type.
C19_UnknownBlockIsParseError ==
    (/\ callRet.fn = "UnmarshalMessage"
     /\ TypeOf(callArg.arg) \in {"user", "assistant"}
     /\ UnknownTypes(callArg.arg) # {})
        => /\ callRet.ret.err.kind = "MessageParseError"
           /\ callRet.ret.err.type \in UnknownTypes(callArg.arg)

\* where the parsed message's field comes from: "nested", "flat" or "none"
FieldOrigin(msg, field) ==
    CASE field = "content" ->
            IF msg.Content.blocks = <<[Type |-> "thinking"]>> THEN "nested"
            ELSE IF msg.Content.blocks = <<[Type |-> "text"]>> THEN "flat"
            ELSE "none"
      [] field = "model" -> IF msg.Model = "" THEN "none" ELSE msg.Model
      [] field = "parent_tool_use_id" ->
            IF msg.ParentToolUseID = Nil THEN "none" ELSE msg.ParentToolUseID
      [] field = "uuid" -> IF msg.UUID = Nil THEN "none" ELSE msg.UUID
      [] OTHER -> IF msg.Error = Nil THEN "none" ELSE msg.Error

\* the fields a message of the type has
FieldsOf(ty) ==
    IF ty = "user" THEN {"content", "parent_tool_use_id", "uuid"}
    ELSE {"content", "model", "parent_tool_use_id", "error"}

\* the line is BothForms(ty, flat, nested) and has been parsed into a message
ParsedBothForms(ty, flat, nested) ==
    /\ callRet.fn = "UnmarshalMessage"
    /\ callArg.arg = BothForms(ty, flat, nested)
    /\ callRet.ret.err = NoErr

\* C20: for a user or assistant message that carries both the flat and the
\* nested form, the nested value wins for each field the nested form
\* provides, and the flat value is used only for the fields the nested form
\* does not provide.
C20_NestedWins ==
    \A ty \in {"user", "assistant"}, flat, nested \in SUBSET MessageFields :
        ParsedBothForms(ty, flat, nested)
            => \A f \in FieldsOf(ty) :
                  FieldOrigin(callRet.ret.msg, f)
                      = IF f \in nested THEN "nested"
                        ELSE IF f \in flat THEN "flat" ELSE "none"

\* the content the line has is a list of content blocks of known types
HasKnownBlocks(line) == IsArr(ContentRead(line)) /\ UnknownTypes(line) = {}

\* the line has the field, in the nested or in the flat form, as a string
HasString(line, field) ==
    \/ field \in DOMAIN Nested(line) /\ IsStr(Nested(line)[field])
    \/ IsStr(Get(line, field))

\* the shape of the data model: user { content: string or list of
\* ContentBlock }, assistant { content: list of ContentBlock; model: string }
SatisfiesShape(line) ==
    IF TypeOf(line) = "user"
        THEN IsStr(ContentRead(line)) \/ HasKnownBlocks(line)
        ELSE HasKnownBlocks(line) /\ HasString(line, "model")

\* C27: for a line of type user or assistant, parse succeeds iff the line
\* satisfies the shape of the data model: a user line iff it has content
\* that is a string or a list of known content blocks, an assistant line
\* iff it has content that is a list of known content blocks and a model.
C27_ParsesIffShape ==
    (callRet.fn = "UnmarshalMessage" /\ TypeOf(callArg.arg) \in {"user", "assistant"})
        => (callRet.ret.err = NoErr <=> SatisfiesShape(callArg.arg))

(***************************************************************************)
(* SubprocessCLITransport: the reader task of stdout and the consumer of   *)
(* its messages channel.  The transport's code is not part of the sources  *)
(* at hand; the reader follows the specification (Line Codec, Message      *)
(* Parser: failure policy, Subprocess Transport: supervision, Budgeted     *)
(* Message Buffer) and parses each line with UnmarshalMessage.             *)
(***************************************************************************)
MaxLines == 3
\* capacity of the messages channel the model gives the reader
MaxBuffered == 2

\* a line of stdout: empty, longer than the reader's buffer, or JSON text
EmptyLine == [raw |-> "empty"]
OversizeLine == [raw |-> "oversize"]
JsonLine(obj) == [raw |-> "json", obj |-> obj]

Overflow == [kind |-> "CLIJSONDecodeError", message |-> "overflow", cause |-> PlainError("overflow")]

ControlTypes == {"control_request", "control_response"}

\* the reader hands control lines to the control engine
IsControlLine(line) == line.raw = "json" /\ TypeOf(line.obj) \in ControlTypes

\* what the reader posts on the messages channel for a line of JSON text:
\* the message, or the parse failure as an error message
Posted(line) ==
    IF UnmarshalMessage(line.obj).err = NoErr
        THEN [kind |-> "message", msg |-> UnmarshalMessage(line.obj).msg]
        ELSE [kind |-> "error", err |-> UnmarshalMessage(line.obj).err]

Enqueue_Front(queue, item) == <<item>> \o queue

\* a channel send: the item goes behind the ones already buffered
Enqueue(queue, item) == Append(queue, item)

\* a transport whose stdout will carry `lines`, with the reader started
NewSubprocessCLITransport(lines) ==
    sub = [stdout |-> lines, lines |-> lines, pos |-> 0, messages |-> <<>>,
           closed |-> FALSE, toControl |-> <<>>, received |-> <<>>,
           sawClosed |-> FALSE, ready |-> TRUE, err |-> NoErr]

\* an iteration of the reader that ends the stream when a line fails to parse
messageReaderLoop_StopOnFailure ==
    /\ ~sub.closed
    /\ IF sub.stdout = <<>>
          THEN sub' = [sub EXCEPT !.closed = TRUE]
       ELSE IF Head(sub.stdout) = OversizeLine
          THEN sub' = [sub EXCEPT !.stdout = <<>>, !.pos = @ + 1, !.err = Overflow,
                                  !.ready = FALSE, !.closed = TRUE]
       ELSE IF Head(sub.stdout) = EmptyLine
          THEN sub' = [sub EXCEPT !.stdout = Tail(@), !.pos = @ + 1]
       ELSE IF IsControlLine(Head(sub.stdout))
          THEN sub' = [sub EXCEPT !.stdout = Tail(@), !.pos = @ + 1,
                                  !.toControl = Append(@, Head(sub.stdout).obj)]
       ELSE /\ Len(sub.messages) < MaxBuffered
            /\ IF Posted(Head(sub.stdout)).kind = "error"
                  THEN sub' = [sub EXCEPT !.stdout = <<>>, !.pos = @ + 1,
                                          !.messages = Enqueue(@, Posted(Head(sub.stdout))),
                                          !.ready = FALSE, !.closed = TRUE]
                  ELSE sub' = [sub EXCEPT !.stdout = Tail(@), !.pos = @ + 1,
                                          !.messages = Enqueue(@, Posted(Head(sub.stdout)))]
    /\ UNCHANGED otherThanSub

\* one iteration of the reader task: read_line, then parse and post.  EOF
\* ends the task and closes the channel; an oversize line is latched as an
\* overflow error and aborts the stream; an empty line is dropped; a full
\* channel blocks the reader
messageReaderLoop ==
    /\ ~sub.closed
    /\ IF sub.stdout = <<>>
          THEN sub' = [sub EXCEPT !.closed = TRUE]
       ELSE IF Head(sub.stdout) = OversizeLine
          THEN sub' = [sub EXCEPT !.stdout = <<>>, !.pos = @ + 1, !.err = Overflow,
                                  !.ready = FALSE, !.closed = TRUE]
       ELSE IF Head(sub.stdout) = EmptyLine
          THEN sub' = [sub EXCEPT !.stdout = Tail(@), !.pos = @ + 1]
       ELSE IF IsControlLine(Head(sub.stdout))
          THEN sub' = [sub EXCEPT !.stdout = Tail(@), !.pos = @ + 1,
                                  !.toControl = Append(@, Head(sub.stdout).obj)]
       ELSE /\ Len(sub.messages) < MaxBuffered
            /\ sub' = [sub EXCEPT !.stdout = Tail(@), !.pos = @ + 1,
                                  !.messages = Enqueue(@, Posted(Head(sub.stdout)))]
    /\ UNCHANGED otherThanSub

\* the consumer ranging over the messages channel: a buffered item, or the
\* end of the range once the channel is closed and drained
ReceiveMessage ==
    /\ ~sub.sawClosed
    /\ IF sub.messages # <<>>
          THEN sub' = [sub EXCEPT !.messages = Tail(@),
                                  !.received = Append(@, Head(sub.messages))]
          ELSE /\ sub.closed
               /\ sub' = [sub EXCEPT !.sawClosed = TRUE]
    /\ UNCHANGED otherThanSub

NextSub ==
    \/ messageReaderLoop
    \/ ReceiveMessage

(***************************************************************************)
(* The streams of lines the reader is given.                               *)
(***************************************************************************)
StdoutLines ==
    {EmptyLine, OversizeLine}
    \cup {JsonLine(obj) :
            obj \in {[type |-> JStr("user"), content |-> JStr("hello")],
                     [type |-> JStr("assistant"), content |-> RawContent(<<"text">>),
                      model |-> JStr("claude-3")],
                     [type |-> JStr("assistant"),
                      message |-> JObj([content |-> RawContent(<<"video">>),
                                        model |-> JStr("m")])],
                     [type |-> JNum(2)],
                     [type |-> JStr("control_response")]}}

(***************************************************************************)
(* Properties of the reader.                                               *)
(***************************************************************************)
\* the lines the reader has consumed
LinesRead == SubSeq(sub.lines, 1, sub.pos)

\* everything the reader has put on the channel, in order
EverPosted == sub.received \o sub.messages

\* the line is JSON text for the messages channel and does not parse
FailsToParse(line) ==
    line.raw = "json" /\ ~IsControlLine(line) /\ UnmarshalMessage(line.obj).err # NoErr

\* the line is JSON text for the messages channel and parses
IsValidLine(line) ==
    line.raw = "json" /\ ~IsControlLine(line) /\ UnmarshalMessage(line.obj).err = NoErr

RECURSIVE SelectLines(_, _)
\* the lines of the sequence that are JSON text for the messages channel
SelectLines(lines, valid) ==
    IF lines = <<>> THEN <<>>
    ELSE IF IF valid THEN IsValidLine(Head(lines))
            ELSE IsValidLine(Head(lines)) \/ FailsToParse(Head(lines))
        THEN <<Head(lines)>> \o SelectLines(Tail(lines), valid)
    ELSE SelectLines(Tail(lines), valid)

\* no line read so far was longer than the buffer
NoOverflow == \A i \in 1..sub.pos : sub.lines[i] # OversizeLine

\* C21: a parse failure terminates only the offending line: once a line has
\* failed to decode or parse, the transport stays open (ready, the channel
\* not closed before the end of the stream), and each later valid line the
\* reader consumes is parsed and posted in its place after the failure.
C21_ParseFailureEndsOnlyTheLine ==
    (NoOverflow /\ \E i \in 1..sub.pos : FailsToParse(sub.lines[i]))
        => /\ sub.ready
           /\ sub.closed => sub.pos = Len(sub.lines)
           /\ EverPosted = [i \in DOMAIN SelectLines(LinesRead, FALSE) |->
                               Posted(SelectLines(LinesRead, FALSE)[i])]

\* a failed line, then a valid one, and the consumer holds the message of
\* the valid one after the error of the failed one
C21_Witness ==
    /\ Len(sub.received) = 2
    /\ sub.received[1].kind = "error"
    /\ sub.received[2].kind = "message"
    /\ sub.ready

RECURSIVE MessagesIn(_)
\* the messages among the items of a channel
MessagesIn(items) ==
    IF items = <<>> THEN <<>>
    ELSE IF Head(items).kind = "message"
        THEN <<Head(items).msg>> \o MessagesIn(Tail(items))
    ELSE MessagesIn(Tail(items))

\* the messages of the valid lines, in the order of the lines
EmittedMessages(lines) ==
    [i \in DOMAIN SelectLines(lines, TRUE) |-> UnmarshalMessage(SelectLines(lines, TRUE)[i].obj).msg]

IsPrefix(p, q) == Len(p) <= Len(q) /\ p = SubSeq(q, 1, Len(p))

\* the consumer has what the reader delivered of the lines read, in order,
\* and all of it once the range over the channel has ended
DeliveredInOrder ==
    /\ IsPrefix(MessagesIn(sub.received), EmittedMessages(LinesRead))
    /\ sub.sawClosed => MessagesIn(sub.received) = EmittedMessages(LinesRead)
    /\ (sub.closed /\ NoOverflow) => sub.pos = Len(sub.lines)

\* C22: the reader delivers the conversational messages in exactly the
\* order the peer emitted their lines, skipping empty lines, and closes the
\* messages channel once stdout reaches EOF.
C22_OrderedUntilEOF == []DeliveredInOrder /\ <>sub.closed

\* two messages delivered around an empty line, and the channel closed
C22_Witness ==
    /\ sub.sawClosed
    /\ Len(MessagesIn(sub.received)) = 2
    /\ \E i \in 1..sub.pos : sub.lines[i] = EmptyLine
    /\ NoOverflow

(***************************************************************************)
(* HTTPTransport: Connect, OnError, GetError, IsReady, Close.  t.ctx is     *)
(* "nil", "live" or "cancelled"; errChan and messageChan are the buffers   *)
(* of the channels.  A Go panic ends the program.                          *)
(***************************************************************************)
MaxOnError == 2
MaxGetError == 3

\* errChan: make(chan error, 10)
ErrChanCap == 10

\* messageChan: make(chan []byte, 100)
MsgChanCap == 100

TransportErrors == {"e1", "e2"}

\* The transport NewHTTPTransport returns; sse is strings.Contains(url, "/sse")
\* and stream is the number of data lines the server is going to send.
\* rpc is the position of the SSE receiver goroutine and wpc that of a Write.
HTTPTransport(sse, stream) ==
    [ctx |-> "nil", errChan |-> <<>>, errClosed |-> FALSE, msgClosed |-> FALSE,
     panicked |-> FALSE, connectRet |-> "none", connected |-> FALSE,
     recorded |-> <<>>, got |-> <<>>,
     panic |-> "", sseMode |-> sse, rpc |-> "none", line |-> 0, stream |-> stream,
     arrived |-> 0, messageChan |-> <<>>, delivered |-> <<>>,
     wpc |-> "idle", writes |-> 0]

NewHTTPTransport == http = HTTPTransport(FALSE, 0)

\* Connect: `ok` is whether the initialize round trip succeeds
HTTPTransportConnect(ok) ==
    /\ ~http.panicked
    /\ IF http.ctx # "nil"
          THEN http' = [http EXCEPT !.connectRet = "already connected"]
       ELSE IF ok
          THEN http' = [http EXCEPT !.ctx = "live", !.connectRet = "nil",
                                    !.connected = TRUE,
                                    !.rpc = IF http.sseMode THEN "request" ELSE @]
          ELSE http' = [http EXCEPT !.ctx = "live", !.connectRet = "send initialize request",
                                    !.rpc = IF http.sseMode THEN "request" ELSE @]
    /\ UNCHANGED otherThanHttp

\* OnError: a select with a send on errChan and a default
OnError(err) ==
    /\ ~http.panicked
    /\ Len(http.recorded) < MaxOnError
    /\ IF http.errClosed
          THEN http' = [http EXCEPT !.panicked = TRUE, !.panic = "send on closed channel"]
       ELSE IF Len(http.errChan) < ErrChanCap
          THEN http' = [http EXCEPT !.errChan = Append(@, err),
                                    !.recorded = Append(@, err)]
          ELSE http' = [http EXCEPT !.recorded = Append(@, err)]
    /\ UNCHANGED otherThanHttp

\* GetError: a select with a receive from errChan and a default; what it
\* returns is kept with the errors recorded before the call
GetError ==
    /\ ~http.panicked
    /\ Len(http.got) < MaxGetError
    /\ http' = [http EXCEPT !.errChan = IF @ = <<>> THEN @ ELSE Tail(@),
                            !.got = Append(@, [ret |-> IF http.errChan # <<>>
                                                          THEN Head(http.errChan) ELSE Nil,
                                               recorded |-> http.recorded])]
    /\ UNCHANGED otherThanHttp

\* IsReady: t.ctx != nil && t.ctx.Err() == nil
IsReady(t) == t.ctx # "nil" /\ t.ctx # "cancelled"

\* Close: cancel, then close(t.messageChan) and close(t.errChan); closing a
\* closed channel panics
HTTPTransportClose ==
    /\ ~http.panicked
    /\ IF http.msgClosed
          THEN http' = [http EXCEPT !.ctx = IF @ = "nil" THEN @ ELSE "cancelled",
                                    !.connected = FALSE, !.panicked = TRUE,
                                    !.panic = "close of closed channel"]
          ELSE http' = [http EXCEPT !.ctx = IF @ = "nil" THEN @ ELSE "cancelled",
                                    !.connected = FALSE,
                                    !.msgClosed = TRUE, !.errClosed = TRUE]
    /\ UNCHANGED otherThanHttp

(***************************************************************************)
(* HTTPTransport: the SSE receiver goroutine, Write and the reader of      *)
(* messageChan.  A data line is its number in arrival order; the response  *)
(* to a Write is 0.                                                        *)
(***************************************************************************)
MaxSseData == 2
MaxWrites == 1

\* a send on a channel: it panics when the channel is closed
Panic(t, why) == [t EXCEPT !.panicked = TRUE, !.panic = why]

\* t.errChan <- err in the receiver: a blocking send, then return
sseReceiverReport(t) ==
    IF t.errClosed
       THEN Panic(t, "send on closed channel")
       ELSE [t EXCEPT !.errChan = Append(@, "sse"), !.rpc = "exit"]

\* the GET request: `ok` is whether it succeeds with an event stream; it
\* fails when t.ctx is cancelled
sseReceiverRequest(ok) ==
    /\ ~http.panicked
    /\ http.rpc = "request"
    /\ IF ok /\ http.ctx = "live"
          THEN http' = [http EXCEPT !.rpc = "scan"]
          ELSE /\ http.errClosed \/ Len(http.errChan) < ErrChanCap
               /\ http' = sseReceiverReport(http)
    /\ UNCHANGED otherThanHttp

\* scanner.Scan() returns a data line; select on t.ctx.Done() with a default
sseReceiverScan ==
    /\ ~http.panicked
    /\ http.rpc = "scan"
    /\ http.arrived < http.stream
    /\ IF http.ctx = "cancelled"
          THEN http' = [http EXCEPT !.rpc = "exit"]
          ELSE http' = [http EXCEPT !.rpc = "deliver", !.line = http.arrived + 1,
                                    !.arrived = @ + 1]
    /\ UNCHANGED otherThanHttp

\* select { case t.messageChan <- data: default: drop }
sseReceiverDeliver ==
    /\ ~http.panicked
    /\ http.rpc = "deliver"
    /\ IF http.msgClosed
          THEN http' = Panic(http, "send on closed channel")
       ELSE IF Len(http.messageChan) < MsgChanCap
          THEN http' = [http EXCEPT !.messageChan = Append(@, http.line),
                                    !.rpc = "scan", !.line = 0]
          ELSE http' = [http EXCEPT !.rpc = "scan", !.line = 0]
    /\ UNCHANGED otherThanHttp

\* scanner.Scan() returns false: the stream ended, or Close closed the body;
\* `failed` is whether scanner.Err() is an error
sseReceiverScanEnd(failed) ==
    /\ ~http.panicked
    /\ http.rpc = "scan"
    /\ http.arrived = http.stream \/ http.ctx = "cancelled"
    /\ IF failed
          THEN /\ http.errClosed \/ Len(http.errChan) < ErrChanCap
               /\ http' = sseReceiverReport(http)
          ELSE http' = [http EXCEPT !.rpc = "exit"]
    /\ UNCHANGED otherThanHttp

\* the receiver returns: defer close(t.messageChan)
sseReceiverExit ==
    /\ ~http.panicked
    /\ http.rpc = "exit"
    /\ IF http.msgClosed
          THEN http' = Panic(http, "close of closed channel")
          ELSE http' = [http EXCEPT !.msgClosed = TRUE, !.rpc = "done"]
    /\ UNCHANGED otherThanHttp

\* Write -> sendRequest -> sendHTTPRequest: `ok` is whether the POST succeeds;
\* it fails when t.ctx is nil or cancelled
sendHTTPRequest(ok) ==
    /\ ~http.panicked
    /\ http.wpc = "idle"
    /\ http.writes < MaxWrites
    /\ http' = [http EXCEPT !.writes = @ + 1,
                            !.wpc = IF ok /\ http.ctx = "live" THEN "deliver" ELSE "idle"]
    /\ UNCHANGED otherThanHttp

\* sendRequest: select { case <-t.ctx.Done(): case t.messageChan <- resp:
\* default: }; one of the cases that can proceed is chosen
sendRequest ==
    /\ ~http.panicked
    /\ http.wpc = "deliver"
    /\ \/ /\ http.ctx = "cancelled"
          /\ http' = [http EXCEPT !.wpc = "idle"]
       \/ /\ http.msgClosed
          /\ http' = Panic(http, "send on closed channel")
       \/ /\ ~http.msgClosed
          /\ Len(http.messageChan) < MsgChanCap
          /\ http' = [http EXCEPT !.messageChan = Append(@, 0), !.wpc = "idle"]
       \/ /\ http.ctx # "cancelled"
          /\ ~http.msgClosed
          /\ Len(http.messageChan) = MsgChanCap
          /\ http' = [http EXCEPT !.wpc = "idle"]
    /\ UNCHANGED otherThanHttp

\* ReadMessages: the goroutine receives one message from t.messageChan and
\* hands it to the consumer
ReadMessages ==
    /\ ~http.panicked
    /\ http.messageChan # <<>>
    /\ http' = [http EXCEPT !.delivered = Append(@, Head(http.messageChan)),
                            !.messageChan = Tail(@)]
    /\ UNCHANGED otherThanHttp

\* every method and the receiver, in either mode
NextSse ==
    \/ \E ok \in BOOLEAN : HTTPTransportConnect(ok)
    \/ \E ok \in BOOLEAN : sseReceiverRequest(ok)
    \/ sseReceiverScan
    \/ sseReceiverDeliver
    \/ \E failed \in BOOLEAN : sseReceiverScanEnd(failed)
    \/ sseReceiverExit
    \/ \E ok \in BOOLEAN : sendHTTPRequest(ok)
    \/ sendRequest
    \/ ReadMessages
    \/ \E err \in TransportErrors : OnError(err)
    \/ HTTPTransportClose

\* an event stream longer than the message channel, and its consumer
NextFlood ==
    \/ \E ok \in BOOLEAN : HTTPTransportConnect(ok)
    \/ \E ok \in BOOLEAN : sseReceiverRequest(ok)
    \/ sseReceiverScan
    \/ sseReceiverDeliver
    \/ \E failed \in BOOLEAN : sseReceiverScanEnd(failed)
    \/ sseReceiverExit
    \/ ReadMessages

NextHttp ==
    \/ \E ok \in BOOLEAN : HTTPTransportConnect(ok)
    \/ \E err \in TransportErrors : OnError(err)
    \/ GetError
    \/ HTTPTransportClose

(***************************************************************************)
(* Properties of HTTPTransport.                                            *)
(***************************************************************************)
\* the errors recorded before a GetError call
RecordedBefore(call) == {call.recorded[i] : i \in DOMAIN call.recorded}

\* C23: a fatal transport error is latched: once an error has been recorded
\* (passed to OnError), every later GetError call returns a recorded error;
\* reading the error does not clear it.
C23_ErrorStaysLatched ==
    \A i \in DOMAIN http.got :
        RecordedBefore(http.got[i]) # {} => http.got[i].ret \in RecordedBefore(http.got[i])

\* C24: IsReady() is true exactly while the transport is connected: false
\* before Connect, true after a Connect that completed successfully, false
\* after a Connect that returned an error, and false after Close.
C24_ReadyIffConnected == IsReady(http) <=> http.connected

\* C31: no channel of the transport is closed twice: neither a second Close
\* nor a Close beside the SSE receiver's own close of messageChan ends in the
\* panic "close of closed channel".
C31_NoChannelClosedTwice == http.panic # "close of closed channel"

\* C32: nothing is sent on a closed channel: no error report of the SSE
\* receiver, no response delivery of sendRequest, no data line and no OnError
\* ends in the panic "send on closed channel".
C32_NoSendOnClosedChannel == http.panic # "send on closed channel"

\* the data lines handed to the consumer or waiting in messageChan, in order
DataKept == SelectSeq(http.delivered \o http.messageChan, LAMBDA m : m # 0)

\* the data lines the receiver has finished handling
DataHandled == http.arrived - (IF http.rpc = "deliver" THEN 1 ELSE 0)

\* C33: while messageChan is open, every data line the receiver has handled
\* has been delivered to the consumer or waits in messageChan, in arrival
\* order; none was discarded.
C33_NoDataDropped ==
    ~http.msgClosed =>
        /\ Len(DataKept) = DataHandled
        /\ \A i \in 1..Len(DataKept) : DataKept[i] = i

\* C34: a Connect call returns "already connected" only when the transport
\* is connected at the call; after a Connect that returned an error a later
\* Connect is attempted.
C34_RejectedOnlyWhileConnected ==
    [][((\E ok \in BOOLEAN : HTTPTransportConnect(ok))
            /\ http'.connectRet = "already connected") => http.connected]_vars

(***************************************************************************)
(* Repeated validation: validateInput called again and again with the same *)
(* schema and the same argument object.                                    *)
(***************************************************************************)
MaxValidations == 2

\* a validateInput that can reject what it accepted
ValidateOutcomes_Unstable(schema, input) ==
    validateInput(schema, input) \cup {NoError, [kind |-> "stale", field |-> ""]}

\* what a call of validateInput can return: nil, or one of its errors
ValidateOutcomes(schema, input) ==
    IF validateInput(schema, input) = {} THEN {NoError} ELSE validateInput(schema, input)

\* what the calls made so far returned, in order
Outcomes == IF callRet = NoCall THEN <<>> ELSE callRet.ret

\* one more call of validateInput(schema, input); it assigns to neither map
Validate ==
    /\ callArg.fn = "validateInput"
    /\ Len(Outcomes) < MaxValidations
    /\ \E err \in ValidateOutcomes(callArg.arg.schema, callArg.arg.input) :
          callRet' = [fn |-> "validateInput", ret |-> Append(Outcomes, err)]
    /\ UNCHANGED callArg
    /\ UNCHANGED otherThanFn

NextValidate == Validate

ValidatedSchemas == {SchemaAB, SchemaEcho, SchemaLevel}

ValidatedInputs == AddArgs \cup EchoArgs \cup LevelArgs \cup DivideArgs

NewTool == [params |-> <<>>, required |-> <<>>]

\* addParam
addParam(b, param, required) ==
    [params |-> Append(b.params, param),
     required |-> IF required THEN Append(b.required, param.Name) ELSE b.required]

ObjectParam(b, name, required, properties) ==
    addParam(b, [Name |-> name, Type |-> "object", Required |-> required,
                 Properties |-> properties], required)

\* the orders in which `range param.Properties` can visit the required
\* nested properties
RangeOrders(properties) ==
    LET req == {k \in DOMAIN properties : properties[k].Required}
    IN {o \in [1..Cardinality(req) -> req] : \A i, j \in DOMAIN o : o[i] = o[j] => i = j}

\* the schema of one parameter (the descriptions are left out); `order` is
\* the order in which the nested properties were visited
PropertySchema(param, order) ==
    IF param.Type = "object" /\ "Properties" \in DOMAIN param
        THEN LET objProps == [k \in DOMAIN param.Properties |->
                                 [type |-> param.Properties[k].Type]]
                 nestedRequired == [i \in DOMAIN order |-> param.Properties[order[i]].Name]
             IN IF Len(nestedRequired) > 0
                    THEN [type |-> param.Type, properties |-> objProps,
                          required |-> nestedRequired]
                    ELSE [type |-> param.Type, properties |-> objProps]
        ELSE [type |-> param.Type]

\* buildJSONSchema for a builder whose parameters have different names
buildJSONSchema(b, order) ==
    [type |-> "object",
     properties |-> [n \in {b.params[i].Name : i \in DOMAIN b.params} |->
                        PropertySchema(
                            b.params[CHOOSE i \in DOMAIN b.params : b.params[i].Name = n],
                            order)],
     required |-> b.required]

\* NewTool(..).ObjectParam("address", .., true, properties).Build(), then
\* validateInput(tool.inputSchema, input) as tool.Execute calls it
BuildAndValidate ==
    /\ callArg.fn = "ObjectParam"
    /\ \E order \in RangeOrders(callArg.arg.properties) :
          LET schema == buildJSONSchema(
                            ObjectParam(NewTool, "address", TRUE, callArg.arg.properties),
                            order)
          IN Returns("ObjectParam",
                     [schema |-> schema, errors |-> validateInput(schema, callArg.arg.input)])

NextObject == BuildAndValidate

\* The nested properties a tool is built with: a map from "street" and "city"
\* to string parameters, required or not, whose Name field is the key or is
\* left empty.
NestedKeys == {"street", "city"}

NestedParam(k) ==
    {[Name |-> n, Type |-> "string", Required |-> r] : n \in {k, ""}, r \in BOOLEAN}

NestedProperties ==
    UNION {{f \in [D -> UNION {NestedParam(k) : k \in D}] : \A k \in D : f[k] \in NestedParam(k)}
              : D \in (SUBSET NestedKeys) \ {{}}}

\* the objects given for the parameter
NestedInputs ==
    UNION {[D -> {JStr("x")}] : D \in SUBSET (NestedKeys \cup {"zip"})}

\* the nested object has every required nested property, by its key in the
\* properties map, and no undeclared key
HasRequiredAndDeclared(properties, nested) ==
    /\ \A k \in DOMAIN properties : properties[k].Required => k \in DOMAIN nested
    /\ DOMAIN nested \subseteq DOMAIN properties

\* C35: for a tool built with ObjectParam, an input is accepted iff the nested
\* object contains every nested property flagged Required, named by its key in
\* the properties map, and no undeclared key.
C35_NestedRequiredByKey ==
    (callArg.fn = "ObjectParam" /\ callRet # NoCall) =>
        (callRet.ret.errors = {}
            <=> HasRequiredAndDeclared(callArg.arg.properties, callArg.arg.input["address"].v))

(***************************************************************************)
(* generateMcpConfigFile as a function of options.McpServers.  A server    *)
(* configuration is its Go type and its type field; options.McpServers is  *)
(* nil, a string, or a map from names to configurations.                   *)
(***************************************************************************)
\* `io` says how os.CreateTemp and the encoder fare; the result is the path
\* returned ("" or "tmp"), the error, and what the file holds.  ConfigEntry
\* is what the loop over the servers puts into config["mcpServers"] for one
\* server: nothing for an in-process server, an entry for a value of one of
\* the three external configuration types, nothing for any other value.
generateMcpConfigFile(mcp, io) ==
    LET ConfigEntry(server) ==
            IF server.gotype = "*types.ToolServerConfig" /\ server.type = "sdk" THEN {}
            ELSE CASE server.gotype = "types.McpStdioServerConfig" -> {[type |-> "stdio"]}
                   [] server.gotype = "types.McpSSEServerConfig"   -> {[type |-> "sse"]}
                   [] server.gotype = "types.McpHTTPServerConfig"  -> {[type |-> "http"]}
                   [] OTHER -> {}
        listed == {n \in DOMAIN mcp.servers : ConfigEntry(mcp.servers[n]) # {}}
        config == [mcpServers |->
                      [n \in listed |-> CHOOSE e \in ConfigEntry(mcp.servers[n]) : TRUE]]
        NoFile(err) == [path |-> "", err |-> err, file |-> {}]
    IN IF mcp.form = "nil" THEN NoFile("")
       ELSE IF mcp.form # "map"
           THEN NoFile("invalid McpServers type, expected map[string]interface{}")
       ELSE IF DOMAIN mcp.servers = {} THEN NoFile("")
       ELSE IF listed = {} THEN NoFile("")
       ELSE IF io = "createFails" THEN NoFile("create temp file")
       ELSE IF io = "encodeFails" THEN NoFile("encode config")
       ELSE [path |-> "tmp", err |-> "", file |-> {config}]

GenerateConfig ==
    /\ callArg.fn = "generateMcpConfigFile"
    /\ Returns("generateMcpConfigFile",
               generateMcpConfigFile(callArg.arg.mcp, callArg.arg.io))

NextConfig == GenerateConfig

\* The configurations a server is given: an in-process server made by
\* CreateToolServer, the three external configuration types by value, one of
\* them by pointer, and an external server written as a map, as the
\* repository's documents write it.
ConfiguredServers ==
    {[gotype |-> "*types.ToolServerConfig", type |-> "sdk"],
     [gotype |-> "types.McpStdioServerConfig", type |-> "stdio"],
     [gotype |-> "types.McpSSEServerConfig", type |-> "sse"],
     [gotype |-> "types.McpHTTPServerConfig", type |-> "http"],
     [gotype |-> "*types.McpHTTPServerConfig", type |-> "http"],
     [gotype |-> "map[string]interface{}", type |-> "stdio"]}

ConfiguredNames == {"calc", "ext"}

McpServersOptions ==
    {[form |-> "nil", servers |-> EmptyMap], [form |-> "string", servers |-> EmptyMap]}
    \cup UNION {{[form |-> "map", servers |-> f] : f \in [D -> ConfiguredServers]}
                   : D \in SUBSET ConfiguredNames}

\* the configured servers that are not in-process
External(mcp) == {n \in DOMAIN mcp.servers : mcp.servers[n].type # "sdk"}

\* C37: when generateMcpConfigFile meets no I/O failure, it makes a temporary
\* file iff at least one external server is configured; the file lists
\* exactly the configured external servers, each under its type, and never
\* an in-process server.
C37_ConfigFileListsExternalServers ==
    (callRet # NoCall /\ callRet.fn = "generateMcpConfigFile"
        /\ callArg.arg.io = "ok" /\ callArg.arg.mcp.form # "string")
        => LET mcp == callArg.arg.mcp
               ret == callRet.ret
           IN /\ ret.path # "" <=> External(mcp) # {}
              /\ \A config \in ret.file :
                    /\ DOMAIN config.mcpServers = External(mcp)
                    /\ \A n \in External(mcp) :
                          config.mcpServers[n].type = mcp.servers[n].type

(***************************************************************************)
(* The in-process servers of an MCPServerTransport: sdkMCPServers maps a   *)
(* name to a *mcp.SdkMCPServer, which is Nil or an instance.               *)
(***************************************************************************)
SdkInstances == {"server1", "server2"}

\* NewMCPServerTransport: an empty table, then initializeMCPServers enters a
\* Nil placeholder under the name of every *types.ToolServerConfig of the
\* options
MCPServerTransport(mcp) ==
    LET placeholders ==
            IF mcp.form = "map"
                THEN {n \in DOMAIN mcp.servers :
                         mcp.servers[n].gotype = "*types.ToolServerConfig"}
                ELSE {}
    IN [sdkMCPServers |-> [n \in placeholders |-> Nil],
        called |-> FALSE, name |-> "", server |-> Nil, exists |-> FALSE,
        registered |-> {}]

\* `registered` records the names a non-nil instance has been registered under
RegisterSDKMCPServer(name, server) ==
    /\ sdk' = [sdk EXCEPT
                 !.sdkMCPServers =
                     [n \in DOMAIN @ \cup {name} |-> IF n = name THEN server ELSE @[n]],
                 !.registered = IF server # Nil THEN @ \cup {name} ELSE @]
    /\ UNCHANGED otherThanSdk

GetSDKMCPServer(name) ==
    /\ sdk' = [sdk EXCEPT
                 !.called = TRUE,
                 !.name = name,
                 !.server = IF name \in DOMAIN sdk.sdkMCPServers
                                THEN sdk.sdkMCPServers[name] ELSE Nil,
                 !.exists = name \in DOMAIN sdk.sdkMCPServers]
    /\ UNCHANGED otherThanSdk

SdkNames == ConfiguredNames \cup {"other"}

NextSdk ==
    \/ \E name \in SdkNames, server \in SdkInstances \cup {Nil} :
          RegisterSDKMCPServer(name, server)
    \/ \E name \in SdkNames : GetSDKMCPServer(name)

\* C38: GetSDKMCPServer reports a server as existing only if a non-nil
\* server instance has been registered under that name, so that a name
\* without a registered instance is an unknown server.
C38_ExistsOnlyIfInstanceRegistered ==
    (sdk.called /\ sdk.exists) => (sdk.server # Nil /\ sdk.name \in sdk.registered)

(***************************************************************************)
(* Specifications.                                                         *)
(***************************************************************************)
McpFixed == McpConstructed(<<>>)

RegFixed == NewRegistry(<<>>)

TmpFixed == NoTransport(NoServers)

FnFixed == NothingCalled

\* a transport the specification at hand has no instance of
NotConstructed == [constructed |-> FALSE]

SubFixed == sub = NotConstructed

HttpFixed == http = NotConstructed

SdkFixed == sdk = NotConstructed

\* the parts of the state a specification about one component holds fixed
Others(component) ==
    /\ IF component = "cc" THEN TRUE ELSE NewConcurrentClient
    /\ IF component = "mcp" THEN TRUE ELSE McpFixed
    /\ IF component = "ctl" THEN TRUE ELSE NewControlEngine
    /\ IF component = "reg" THEN TRUE ELSE RegFixed
    /\ IF component = "tmp" THEN TRUE ELSE TmpFixed
    /\ IF component = "fn" THEN TRUE ELSE FnFixed
    /\ IF component = "sub" THEN TRUE ELSE SubFixed
    /\ IF component = "http" THEN TRUE ELSE HttpFixed
    /\ IF component = "sdk" THEN TRUE ELSE SdkFixed

InitCC == NewConcurrentClient /\ Others("cc")

SpecCC == InitCC /\ [][NextCC]_vars

SpecCalls == InitCC /\ [][NextCalls]_vars

SpecLong == InitCC /\ [][NextLong]_vars /\ FairForwarders

SpecSignals == InitCC /\ [][NextSignals]_vars

InitMcp ==
    /\ Others("mcp")
    /\ \E ts \in SeqsUpTo(ToolUniverse, MaxTools) : McpConstructed(ts)

SpecMcp == InitMcp /\ [][NextMcp]_vars

InitCtl == NewControlEngine /\ Others("ctl")

SpecCtl == InitCtl /\ [][NextCtl]_vars

InitReg ==
    /\ Others("reg")
    /\ \E ts \in SeqsUpTo(RegTools, MaxTools) : NewRegistry(ts)

SpecReg == InitReg /\ [][NextReg]_vars

InitTmp ==
    /\ Others("tmp")
    /\ \E servers \in McpServersValues : NoTransport(servers)

SpecTmp == InitTmp /\ [][NextTmp]_vars

InitParse ==
    /\ Others("fn")
    /\ \E line \in ParsedLines : Calling("UnmarshalMessage", line)

SpecParse == InitParse /\ [][NextParse]_vars

InitRoute ==
    /\ Others("fn")
    /\ \E toolName \in RoutedNames : Calling("RouteToolUse", toolName)

SpecRoute == InitRoute /\ [][NextRoute]_vars

InitSub ==
    /\ Others("sub")
    /\ \E lines \in SeqsUpTo(StdoutLines, MaxLines) : NewSubprocessCLITransport(lines)

SpecSub == InitSub /\ [][NextSub]_vars

InitValidate ==
    /\ Others("fn")
    /\ \E schema \in ValidatedSchemas, input \in ValidatedInputs :
          Calling("validateInput", [schema |-> schema, input |-> input])

SpecValidate == InitValidate /\ [][NextValidate]_vars

InitObject ==
    /\ Others("fn")
    /\ \E properties \in NestedProperties, nested \in NestedInputs :
          Calling("ObjectParam", [properties |-> properties,
                                  input |-> [address |-> JObj(nested)]])

SpecObject == InitObject /\ [][NextObject]_vars

InitConfig ==
    /\ Others("fn")
    /\ \E mcp \in McpServersOptions, io \in {"ok", "createFails", "encodeFails"} :
          Calling("generateMcpConfigFile", [mcp |-> mcp, io |-> io])

SpecConfig == InitConfig /\ [][NextConfig]_vars

InitSdk ==
    /\ Others("sdk")
    /\ \E mcp \in McpServersOptions : sdk = MCPServerTransport(mcp)

SpecSdk == InitSdk /\ [][NextSdk]_vars

InitHttp == NewHTTPTransport /\ Others("http")

SpecHttp == InitHttp /\ [][NextHttp]_vars

InitSse ==
    /\ \E sse \in BOOLEAN : \E stream \in 0..MaxSseData : http = HTTPTransport(sse, stream)
    /\ Others("http")

SpecSse == InitSse /\ [][NextSse]_vars

InitFlood == http = HTTPTransport(TRUE, MsgChanCap + 1) /\ Others("http")

SpecFlood == InitFlood /\ [][NextFlood]_vars

\* the reader task and the consumer both keep running
SpecSubFair == SpecSub /\ WF_vars(messageReaderLoop) /\ WF_vars(ReceiveMessage)

====
